---------------------------- MODULE Spec2Model ----------------------------
(***************************************************************************)
(* Empathy Anchor skill and its OpenClaw wrapper.                          *)
(*                                                                         *)
(* Two detectors live in skills/empathy-anchor/index.js: the class         *)
(* EmpathyAnchor (five emotion categories plus a crisis vocabulary) and    *)
(* the function-based Michigan skill (two tiers, DISTRESS and CRISIS).     *)
(* index.js wraps the class in OpenClaw.                                   *)
(*                                                                         *)
(* Representation.  A text that the code scans (a user message) is a       *)
(* sequence of one-character strings, so that toLowerCase and              *)
(* String.includes are computed character by character.  A text that the   *)
(* code composes (a response) is the sequence of the pieces the code       *)
(* concatenates, in order; the empty string is the empty sequence.  A      *)
(* JavaScript value that may be null, undefined or a string is a record    *)
(* tagged with its type.  Math.random is an explicit index argument.       *)
(***************************************************************************)
EXTENDS Naturals, Sequences, FiniteSets, TLC

VARIABLES openclaw, pc, call, ret, cli, service, anchor

vars == << openclaw, pc, call, ret, cli, service, anchor >>

\* What call and ret hold while no operation is in progress.  Every call
\* and every outcome is a record that names its operation in op.
NoCall == [op |-> "none"]

---------------------------------------------------------------------------
(* Bounds *)

\* Longest scanned message, in fragments, handed to the detectors.
MaxWords == 3

\* Longest message, in fragments of ChatFragments, handed to process / chat.
MaxChatWords == 2

\* Longest message, in fragments of RunFragments, handed to run.
MaxRunWords == 1

\* Most lines typed into the interactive loop.
MaxLines == 3

\* Most requests the safety service remembers at a time.
MaxLog == 2

\* Most clock ticks of the safety service.
MaxTicks == 4

---------------------------------------------------------------------------
(* JavaScript values *)

JsNull == [type |-> "null"]

JsUndefined == [type |-> "undefined"]

Str(s) == [type |-> "string", value |-> s]

Bool(b) == [type |-> "boolean", value |-> b]

Num(n) == [type |-> "number", value |-> n]

JsArray(a) == [type |-> "array", value |-> a]

Obj(o) == [type |-> "object", value |-> o]

\* ToBoolean: null, undefined, false and "" are falsy.
Truthy(v) ==
    CASE v.type = "string"  -> v.value # << >>
      [] v.type = "boolean" -> v.value
      [] v.type = "number"  -> v.value # 0
      [] v.type = "array"   -> TRUE
      [] v.type = "object"  -> TRUE
      [] OTHER              -> FALSE

\* An object literal is a function from its own property names to values.
EmptyObject == [f \in {} |-> JsUndefined]

\* obj.f, undefined when the property is absent.
Get(obj, f) == IF f \in DOMAIN obj THEN obj[f] ELSE JsUndefined

\* a || b
Or(a, b) == IF Truthy(a) THEN a ELSE b

---------------------------------------------------------------------------
(* Scanned text *)

UpperCase ==
    << "A","B","C","D","E","F","G","H","I","J","K","L","M",
       "N","O","P","Q","R","S","T","U","V","W","X","Y","Z" >>

LowerCase ==
    << "a","b","c","d","e","f","g","h","i","j","k","l","m",
       "n","o","p","q","r","s","t","u","v","w","x","y","z" >>

\* The lower-case letter of each upper-case letter.
UpperToLower ==
    [ c \in { UpperCase[i] : i \in 1..26 } |->
        LowerCase[CHOOSE i \in 1..26 : UpperCase[i] = c] ]

lowerChar(c) == IF c \in DOMAIN UpperToLower THEN UpperToLower[c] ELSE c

toLowerCase(text) == [i \in 1..Len(text) |-> lowerChar(text[i])]

\* String.prototype.includes: pattern occurs at some offset of text.
includes(text, pattern) ==
    \E i \in 0..(Len(text) - Len(pattern)) :
        \A k \in 1..Len(pattern) : text[i + k] = pattern[k]

WhiteSpaceChars == {" ", "\n", "\t"}

\* String.prototype.trim() === '' on a scanned text.
isBlank(text) == \A i \in 1..Len(text) : text[i] \in WhiteSpaceChars

\* Fragments the model builds user messages from.
Fragments ==
    { << >>,
      <<"h","e","l","l","o">>,
      <<"S","A","D">>,
      <<"s","c","a","r","e","d">>,
      <<"m","a","d">>,
      <<"U","p","s","e","t">>,
      <<"s","t","u","c","k">>,
      <<"K","i","l","l"," ","m","y","s","e","l","f">>,
      <<"c","u","t","t","i","n","g">>,
      <<"e","n","d"," ","i","t">>,
      <<"a","l","l">> }

RECURSIVE Join(_)
Join(ws) ==
    IF Len(ws) = 0 THEN << >>
    ELSE IF Len(ws) = 1 THEN ws[1]
    ELSE ws[1] \o <<" ">> \o Join(Tail(ws))

\* The messages of at most n fragments of pool, separated by one space.
MessagesOver(pool, n) ==
    { Join(ws) : ws \in UNION { [1..k -> pool] : k \in 0..n } }

Messages(n) == MessagesOver(Fragments, n)

\* Fragments of the messages handed to process / chat.
ChatFragments ==
    { << >>,
      <<"h","e","l","l","o">>,
      <<"S","A","D">>,
      <<"s","c","a","r","e","d">>,
      <<"K","i","l","l"," ","m","y","s","e","l","f">> }

\* Fragments of the messages handed to run.
RunFragments ==
    { <<"h","e","l","l","o">>,
      <<"S","A","D">>,
      <<"m","a","d">>,
      <<"c","u","t","t","i","n","g">>,
      <<"K","i","l","l"," ","m","y","s","e","l","f">> }

---------------------------------------------------------------------------
(* EmpathyAnchor: vocabularies, phrase pools and resource table *)

anxietyPatterns ==
    << <<"a","n","x","i","o","u","s">>,
       <<"w","o","r","r","i","e","d">>,
       <<"n","e","r","v","o","u","s">>,
       <<"s","c","a","r","e","d">>,
       <<"a","f","r","a","i","d">>,
       <<"p","a","n","i","c">>,
       <<"s","t","r","e","s","s">> >>

sadnessPatterns ==
    << <<"s","a","d">>,
       <<"d","e","p","r","e","s","s","e","d">>,
       <<"d","o","w","n">>,
       <<"u","n","h","a","p","p","y">>,
       <<"h","o","p","e","l","e","s","s">>,
       <<"l","o","n","e","l","y">>,
       <<"e","m","p","t","y">> >>

angerPatterns ==
    << <<"a","n","g","r","y">>,
       <<"m","a","d">>,
       <<"f","r","u","s","t","r","a","t","e","d">>,
       <<"a","n","n","o","y","e","d">>,
       <<"u","p","s","e","t">>,
       <<"f","u","r","i","o","u","s">> >>

fearPatterns ==
    << <<"t","e","r","r","i","f","i","e","d">>,
       <<"f","r","i","g","h","t","e","n","e","d">>,
       <<"f","e","a","r","f","u","l">>,
       <<"s","c","a","r","e","d">>,
       <<"a","f","r","a","i","d">> >>

overwhelmPatterns ==
    << <<"o","v","e","r","w","h","e","l","m","e","d">>,
       <<"t","o","o"," ","m","u","c","h">>,
       <<"c","a","n","n","o","t"," ","h","a","n","d","l","e">>,
       <<"d","r","o","w","n","i","n","g">>,
       <<"s","t","u","c","k">> >>

crisisPatterns ==
    << <<"s","u","i","c","i","d","e">>,
       <<"s","u","i","c","i","d","a","l">>,
       <<"k","i","l","l"," ","m","y","s","e","l","f">>,
       <<"e","n","d"," ","i","t"," ","a","l","l">>,
       <<"w","a","n","t"," ","i","t"," ","a","l","l"," ","t","o"," ","e","n","d">>,
       <<"w","a","n","t"," ","t","o"," ","d","i","e">>,
       <<"b","e","t","t","e","r"," ","o","f","f"," ","d","e","a","d">>,
       <<"n","o"," ","p","o","i","n","t">>,
       <<"d","o","n","'","t"," ","w","a","n","t"," ","t","o"," ","l","i","v","e">>,
       <<"h","u","r","t"," ","m","y","s","e","l","f">>,
       <<"s","e","l","f","-","h","a","r","m">>,
       <<"c","u","t"," ","m","y","s","e","l","f">>,
       <<"e","n","d"," ","m","y"," ","l","i","f","e">>,
       <<"t","a","k","e"," ","m","y"," ","l","i","f","e">> >>

\* Object.entries(this.emotionPatterns), in insertion order.
emotionPatterns ==
    << [emotion |-> "anxiety",   patterns |-> anxietyPatterns],
       [emotion |-> "sadness",   patterns |-> sadnessPatterns],
       [emotion |-> "anger",     patterns |-> angerPatterns],
       [emotion |-> "fear",      patterns |-> fearPatterns],
       [emotion |-> "overwhelm", patterns |-> overwhelmPatterns],
       [emotion |-> "crisis",    patterns |-> crisisPatterns] >>

compassionateFrames ==
    [ opening |->
        << "I hear you, and what you're feeling is valid.",
           "Thank you for sharing that with me. Your feelings matter.",
           "I'm here to listen, and I want you to know you're not alone.",
           "It takes courage to express how you're feeling. I'm here for you." >>,
      validation |->
        << "It's completely okay to feel this way.",
           "Your emotions are real and important.",
           "Many people experience similar feelings, and they're all valid.",
           "What you're going through is significant, and you deserve support." >>,
      supportive |->
        << "You deserve compassion and understanding.",
           "Taking care of your mental health is important and brave.",
           "Remember, reaching out for help is a sign of strength.",
           "You're worth the care and support you need." >> ]

resources ==
    [ crisis |->
        [ name |-> "988 Suicide & Crisis Lifeline",
          number |-> "988",
          description |-> "Free, confidential support 24/7 for people in distress" ],
      text |->
        [ name |-> "Crisis Text Line",
          number |-> "Text HOME to 741741",
          description |-> "Free, 24/7 crisis support via text" ],
      trevor |->
        [ name |-> "The Trevor Project",
          number |-> "1-866-488-7386",
          description |-> "LGBTQ+ youth crisis support" ],
      general |->
        [ name |-> "SAMHSA National Helpline",
          number |-> "1-800-662-4357",
          description |-> "Substance abuse and mental health services" ] ]

\* The three Math.random draws of wrapWithCompassion, as indices.
RandomDraws ==
    [ opening : 1..Len(compassionateFrames.opening),
      validation : 1..Len(compassionateFrames.validation),
      supportive : 1..Len(compassionateFrames.supportive) ]

---------------------------------------------------------------------------
(* EmpathyAnchor.validateEmotions *)

\* The inner loop: the first pattern that the text includes pushes the
\* label and breaks, so a category contributes when some pattern matches.
matchesAny(lowerText, patterns) ==
    \E k \in 1..Len(patterns) : includes(lowerText, patterns[k])

\* The outer loop over Object.entries(this.emotionPatterns), from entry i.
RECURSIVE scanPatterns(_, _, _)
scanPatterns(lowerText, i, detected) ==
    IF i > Len(emotionPatterns) THEN detected
    ELSE LET entry == emotionPatterns[i] IN
         IF matchesAny(lowerText, entry.patterns)
         THEN scanPatterns(lowerText, i + 1,
                [ emotions  |-> Append(detected.emotions, entry.emotion),
                  isCrisis  |-> IF entry.emotion = "crisis"
                                THEN TRUE ELSE detected.isCrisis,
                  intensity |-> IF entry.emotion = "crisis"
                                THEN "critical" ELSE detected.intensity ])
         ELSE scanPatterns(lowerText, i + 1, detected)

\* [...new Set(a)]: first occurrences, in order.
RECURSIVE dedupe(_)
dedupe(a) ==
    IF a = << >> THEN << >>
    ELSE LET front == dedupe(SubSeq(a, 1, Len(a) - 1))
             last  == a[Len(a)]
         IN IF \E j \in 1..Len(front) : front[j] = last
            THEN front ELSE Append(front, last)

\* Variants of validateEmotions with one fault each: the text scanned,
\* the emotion count above which intensity is high, whether a crisis keeps
\* its intensity, and whether the crisis label is listed.
faultyValidateEmotions(scannedText, highAbove, crisisKept, crisisListed) ==
    LET scanned  == scanPatterns(scannedText, 1,
                       [ emotions |-> << >>, isCrisis |-> FALSE,
                         intensity |-> "moderate" ])
        emotions == dedupe(scanned.emotions)
    IN [ emotions  |-> IF crisisListed THEN emotions
                       ELSE SelectSeq(emotions, LAMBDA e : e # "crisis"),
         isCrisis  |-> scanned.isCrisis,
         intensity |-> IF Len(emotions) > highAbove
                          /\ (crisisKept => ~scanned.isCrisis)
                       THEN "high" ELSE scanned.intensity ]

validateEmotions_crisisOverwritten(text) ==
    faultyValidateEmotions(toLowerCase(text), 3, FALSE, TRUE)

validateEmotions_caseSensitive(text) ==
    faultyValidateEmotions(text, 3, TRUE, TRUE)

validateEmotions_highAboveTwo(text) ==
    faultyValidateEmotions(toLowerCase(text), 2, TRUE, TRUE)

validateEmotions_crisisNotListed(text) ==
    faultyValidateEmotions(toLowerCase(text), 3, TRUE, FALSE)

\* A variant of validateEmotions with one fault: more than 3 emotions make
\* the intensity critical.
validateEmotions_criticalWhenMany(text) ==
    LET detected == faultyValidateEmotions(toLowerCase(text), 3, TRUE, TRUE)
    IN [detected EXCEPT
           !.intensity = IF @ = "high" THEN "critical" ELSE @]

validateEmotions(text) ==
    LET lowerText == toLowerCase(text)
        scanned   == scanPatterns(lowerText, 1,
                        [ emotions |-> << >>, isCrisis |-> FALSE,
                          intensity |-> "moderate" ])
        emotions  == dedupe(scanned.emotions)
    IN [ emotions  |-> emotions,
         isCrisis  |-> scanned.isCrisis,
         intensity |-> IF Len(emotions) > 3 /\ ~scanned.isCrisis
                       THEN "high" ELSE scanned.intensity ]

isCrisisDetected(text) == validateEmotions(text).isCrisis

---------------------------------------------------------------------------
(* Constructors *)

\* EmpathyAnchor.constructor: defaults first, then ...config on top.  The
\* vocabularies, the phrase pools and the resource table it builds are the
\* same literals for every instance and no method assigns them: they are
\* the definitions emotionPatterns, compassionateFrames and resources.
EmpathyAnchorConstructor(config) ==
    [ config |->
        config @@
        [ offlineMode     |-> Bool(Get(config, "offlineMode") # Bool(FALSE)),
          compassionLevel |-> Or(Get(config, "compassionLevel"),
                                 Str(<<"high">>)),
          crisisHotline   |-> Or(Get(config, "crisisHotline"),
                                 Str(<<"988">>)) ] ]

\* OpenClaw.constructor: its own config, and the skill built from it.
OpenClawConstructor(config) ==
    LET thisConfig ==
            config @@
            [ offlineMode |-> Bool(Get(config, "offlineMode") # Bool(FALSE)),
              skills      |-> Or(Get(config, "skills"), JsArray(<< >>)) ]
    IN [ config |-> thisConfig,
         empathyAnchor |->
            EmpathyAnchorConstructor(
                [offlineMode |-> thisConfig.offlineMode]) ]

---------------------------------------------------------------------------
(* EmpathyAnchor.suggestResources *)

\* Variants of suggestResources with one fault each: the crisis branch
\* does not return early, or the 24/7 entry is also marked urgent.
suggestResources_crisisFallsThrough(emotionData) ==
    ( IF emotionData.isCrisis
      THEN << [ name        |-> resources.crisis.name,
                number      |-> resources.crisis.number,
                description |-> resources.crisis.description,
                urgent      |-> TRUE,
                message     |-> "If you're in crisis, please reach out immediately:" ],
              resources.text >>
      ELSE << >> )
    \o ( IF emotionData.intensity = "high" \/ Len(emotionData.emotions) > 2
         THEN << [ name        |-> resources.crisis.name,
                   number      |-> resources.crisis.number,
                   description |-> resources.crisis.description,
                   message     |-> "If you need immediate support, these resources are available 24/7:" ] >>
         ELSE << >> )
    \o << [ name        |-> resources.general.name,
            number      |-> resources.general.number,
            description |-> resources.general.description,
            message     |-> "For ongoing support and resources:" ] >>

suggestResources_urgentWhenHigh(emotionData) ==
    IF emotionData.isCrisis
    THEN << [ name        |-> resources.crisis.name,
              number      |-> resources.crisis.number,
              description |-> resources.crisis.description,
              urgent      |-> TRUE,
              message     |-> "If you're in crisis, please reach out immediately:" ],
            resources.text >>
    ELSE ( IF emotionData.intensity = "high" \/ Len(emotionData.emotions) > 2
           THEN << [ name        |-> resources.crisis.name,
                     number      |-> resources.crisis.number,
                     description |-> resources.crisis.description,
                     urgent      |-> TRUE,
                     message     |-> "If you need immediate support, these resources are available 24/7:" ] >>
           ELSE << >> )
         \o
         << [ name        |-> resources.general.name,
              number      |-> resources.general.number,
              description |-> resources.general.description,
              message     |-> "For ongoing support and resources:" ] >>

suggestResources(emotionData) ==
    IF emotionData.isCrisis
    THEN << [ name        |-> resources.crisis.name,
              number      |-> resources.crisis.number,
              description |-> resources.crisis.description,
              urgent      |-> TRUE,
              message     |-> "If you're in crisis, please reach out immediately:" ],
            resources.text >>
    ELSE ( IF emotionData.intensity = "high" \/ Len(emotionData.emotions) > 2
           THEN << [ name        |-> resources.crisis.name,
                     number      |-> resources.crisis.number,
                     description |-> resources.crisis.description,
                     message     |-> "If you need immediate support, these resources are available 24/7:" ] >>
           ELSE << >> )
         \o
         << [ name        |-> resources.general.name,
              number      |-> resources.general.number,
              description |-> resources.general.description,
              message     |-> "For ongoing support and resources:" ] >>

---------------------------------------------------------------------------
(* EmpathyAnchor.wrapWithCompassion, generateSupportiveResponse, process *)

\* One iteration of resources.forEach: the optional context message, then
\* the "- **name**: number" line and the description line.
formatResource(resource) ==
    ( IF "message" \in DOMAIN resource /\ resource.message # ""
      THEN << resource.message, "\n" >> ELSE << >> )
    \o << "- **", resource.name, "**: ", resource.number, "\n" >>
    \o << "  ", resource.description, "\n\n" >>

RECURSIVE formatResources(_)
formatResources(rs) ==
    IF rs = << >> THEN << >>
    ELSE formatResource(Head(rs)) \o formatResources(Tail(rs))

ResourcesHeading == "\n**Resources for Support:**\n\n"

\* A variant of wrapWithCompassion with one fault: whether the resources
\* are printed depends on the closing phrase that was drawn.
wrapWithCompassion_resourcesByDraw(originalResponse, userInput, rnd) ==
    LET emotionData == validateEmotions(userInput)
        opening     == compassionateFrames.opening[rnd.opening]
        validation  == compassionateFrames.validation[rnd.validation]
        suggested   == suggestResources(emotionData)
        supportive  == compassionateFrames.supportive[rnd.supportive]
    IN << opening, "\n\n" >>
       \o ( IF Len(emotionData.emotions) > 0
            THEN << validation, "\n\n" >> ELSE << >> )
       \o originalResponse \o << "\n\n" >>
       \o ( IF Len(suggested) > 0 /\ rnd.supportive > 1
            THEN << ResourcesHeading >> \o formatResources(suggested)
            ELSE << >> )
       \o << supportive >>

wrapWithCompassion(originalResponse, userInput, rnd) ==
    LET emotionData == validateEmotions(userInput)
        opening     == compassionateFrames.opening[rnd.opening]
        validation  == compassionateFrames.validation[rnd.validation]
        suggested   == suggestResources(emotionData)
        supportive  == compassionateFrames.supportive[rnd.supportive]
    IN << opening, "\n\n" >>
       \o ( IF Len(emotionData.emotions) > 0
            THEN << validation, "\n\n" >> ELSE << >> )
       \o originalResponse \o << "\n\n" >>
       \o ( IF Len(suggested) > 0
            THEN << ResourcesHeading >> \o formatResources(suggested)
            ELSE << >> )
       \o << supportive >>

\* Array.prototype.join(', ')
RECURSIVE joinComma(_)
joinComma(a) ==
    IF a = << >> THEN << >>
    ELSE IF Len(a) = 1 THEN << a[1] >>
    ELSE << a[1], ", " >> \o joinComma(Tail(a))

generateSupportiveResponse(emotionData) ==
    IF emotionData.isCrisis
    THEN << "Your life has value, and you deserve support right now. Please don't face this alone." >>
    ELSE IF Len(emotionData.emotions) = 0
    THEN << "I'm here to listen and support you. Would you like to share more about what's on your mind?" >>
    ELSE << "I understand you're experiencing feelings of " >>
         \o joinComma(emotionData.emotions)
         \o << ". These emotions are valid, and it's important to acknowledge them. Would you like to talk more about what you're going through?" >>

\* A variant of process with one fault: the underlying response is dropped
\* and the fallback is always generated.
process_ignoresAiResponse(userInput, aiResponse, rnd, now) ==
    LET emotionData  == validateEmotions(userInput)
        baseResponse == generateSupportiveResponse(emotionData)
    IN [ response |-> wrapWithCompassion(baseResponse, userInput, rnd),
         metadata |->
            [ emotionsDetected |-> emotionData.emotions,
              isCrisis         |-> emotionData.isCrisis,
              intensity        |-> emotionData.intensity,
              offlineMode      |-> openclaw.empathyAnchor.config.offlineMode,
              timestamp        |-> now ] ]

\* process(userInput, aiResponse = null); now is new Date().toISOString().
process(userInput, aiResponse, rnd, now) ==
    LET emotionData  == validateEmotions(userInput)
        baseResponse == IF Truthy(aiResponse) THEN aiResponse.value
                        ELSE generateSupportiveResponse(emotionData)
    IN [ response |-> wrapWithCompassion(baseResponse, userInput, rnd),
         metadata |->
            [ emotionsDetected |-> emotionData.emotions,
              isCrisis         |-> emotionData.isCrisis,
              intensity        |-> emotionData.intensity,
              offlineMode      |-> openclaw.empathyAnchor.config.offlineMode,
              timestamp        |-> now ] ]

\* process as a method of a given instance: the instance's config gives
\* metadata.offlineMode, its resource table is the one every instance has.
processOf(this, userInput, aiResponse, rnd, now) ==
    LET emotionData  == validateEmotions(userInput)
        baseResponse == IF Truthy(aiResponse) THEN aiResponse.value
                        ELSE generateSupportiveResponse(emotionData)
    IN [ response |-> wrapWithCompassion(baseResponse, userInput, rnd),
         metadata |->
            [ emotionsDetected |-> emotionData.emotions,
              isCrisis         |-> emotionData.isCrisis,
              intensity        |-> emotionData.intensity,
              offlineMode      |-> this.config.offlineMode,
              timestamp        |-> now ] ]

---------------------------------------------------------------------------
(* OpenClaw.chat, checkCrisis, validateEmotions *)

\* A variant of chat with one fault: the message is not trimmed before it is
\* compared with the empty string.
chat_noTrim(message, aiResponse, rnd, now) ==
    IF message = << >>
    THEN [ response |-> << "I'm here to listen. Please share what's on your mind." >>,
           metadata |-> [ error |-> "Empty input" ] ]
    ELSE process(message, aiResponse, rnd, now)

chat(message, aiResponse, rnd, now) ==
    IF message = << >> \/ isBlank(message)
    THEN [ response |-> << "I'm here to listen. Please share what's on your mind." >>,
           metadata |-> [ error |-> "Empty input" ] ]
    ELSE process(message, aiResponse, rnd, now)

\* The skill methods chat calls for message, in order.
chatInvokes(message) ==
    IF message = << >> \/ isBlank(message) THEN << >> ELSE << "process" >>

\* A variant of checkCrisis with one fault: the message is matched in the
\* letter case it was typed in.
checkCrisis_caseSensitive(message) ==
    validateEmotions_caseSensitive(message).isCrisis

checkCrisis(message) == isCrisisDetected(message)

\* How a call ends: with a value, or with an exception that propagates to
\* the caller (none of the three methods has a try / catch).
Returns(v) == [returns |-> v]

Throws(e) == [throws |-> e]

\* The three methods as a caller reaches them, with any JavaScript value.
\* text.toLowerCase() and message.trim() exist on strings only: on null and
\* undefined the property read throws, on any other value the call of the
\* missing method throws.
callValidateEmotions(message) ==
    IF message.type = "string"
    THEN Returns(validateEmotions(message.value))
    ELSE Throws("TypeError")

callCheckCrisis(message) ==
    IF message.type = "string"
    THEN Returns(checkCrisis(message.value))
    ELSE Throws("TypeError")

callChat(message, aiResponse, rnd, now) ==
    IF ~Truthy(message)
    THEN Returns([ response |-> << "I'm here to listen. Please share what's on your mind." >>,
                   metadata |-> [ error |-> "Empty input" ] ])
    ELSE IF message.type # "string"
    THEN Throws("TypeError")
    ELSE Returns(chat(message.value, aiResponse, rnd, now))

---------------------------------------------------------------------------
(* Michigan skill: resources, vocabularies and phrases *)

MICHIGAN_RESOURCES ==
    [ suicide988 |->
        [ name |-> "988 Suicide & Crisis Lifeline",
          contact |-> "Call or Text 988",
          availability |-> "24/7",
          description |-> "Free, confidential crisis support" ],
      namiMichigan |->
        [ name |-> "NAMI Michigan",
          website |-> "https://namimi.org",
          helpline |-> "1-800-950-NAMI (6264)",
          description |-> "Support groups, education, and advocacy" ],
      crisisTextLine |->
        [ name |-> "Michigan Crisis Text Line",
          contact |-> "Text \"HELLO\" to 741741",
          availability |-> "24/7",
          description |-> "Text-based crisis support" ],
      teenLine |->
        [ name |-> "Teen Line",
          contact |-> "1-800-TLC-TEEN (852-8336)",
          description |-> "Peer support for teens" ] ]

DISTRESS_KEYWORDS ==
    << <<"a","n","x","i","o","u","s">>,
       <<"a","n","x","i","e","t","y">>,
       <<"w","o","r","r","i","e","d">>,
       <<"s","t","r","e","s","s">>,
       <<"s","t","r","e","s","s","e","d">>,
       <<"s","a","d">>,
       <<"s","a","d","n","e","s","s">>,
       <<"d","e","p","r","e","s","s","e","d">>,
       <<"d","e","p","r","e","s","s","i","o","n">>,
       <<"l","o","n","e","l","y">>,
       <<"a","l","o","n","e">>,
       <<"s","c","a","r","e","d">>,
       <<"a","f","r","a","i","d">>,
       <<"f","e","a","r">>,
       <<"p","a","n","i","c">>,
       <<"o","v","e","r","w","h","e","l","m","e","d">>,
       <<"h","u","r","t">>,
       <<"p","a","i","n">>,
       <<"c","r","y","i","n","g">>,
       <<"u","p","s","e","t">>,
       <<"a","n","g","r","y">>,
       <<"f","r","u","s","t","r","a","t","e","d">>,
       <<"h","o","p","e","l","e","s","s">>,
       <<"h","e","l","p","l","e","s","s">>,
       <<"w","o","r","t","h","l","e","s","s">>,
       <<"s","u","i","c","i","d","e">>,
       <<"s","e","l","f","-","h","a","r","m">>,
       <<"n","o","b","o","d","y"," ","u","n","d","e","r","s","t","a","n","d","s">>,
       <<"n","o","b","o","d","y"," ","c","a","r","e","s">>,
       <<"g","i","v","e"," ","u","p">>,
       <<"e","n","d"," ","i","t">> >>

\* A variant of CRISIS_KEYWORDS with one fault: 'end it' of the distress
\* list is among the crisis terms.
CRISIS_KEYWORDS_withEndIt ==
    << <<"s","u","i","c","i","d","e">>,
       <<"s","u","i","c","i","d","a","l">>,
       <<"k","i","l","l"," ","m","y","s","e","l","f">>,
       <<"w","a","n","t"," ","t","o"," ","d","i","e">>,
       <<"e","n","d"," ","m","y"," ","l","i","f","e">>,
       <<"s","e","l","f","-","h","a","r","m">>,
       <<"h","u","r","t"," ","m","y","s","e","l","f">>,
       <<"c","u","t","t","i","n","g">>,
       <<"o","v","e","r","d","o","s","e">>,
       <<"e","n","d"," ","i","t">> >>

CRISIS_KEYWORDS ==
    << <<"s","u","i","c","i","d","e">>,
       <<"s","u","i","c","i","d","a","l">>,
       <<"k","i","l","l"," ","m","y","s","e","l","f">>,
       <<"w","a","n","t"," ","t","o"," ","d","i","e">>,
       <<"e","n","d"," ","m","y"," ","l","i","f","e">>,
       <<"s","e","l","f","-","h","a","r","m">>,
       <<"h","u","r","t"," ","m","y","s","e","l","f">>,
       <<"c","u","t","t","i","n","g">>,
       <<"o","v","e","r","d","o","s","e">> >>

VALIDATION_PHRASES ==
    << "It's completely okay to feel that way",
       "Your feelings are valid, and it's brave to share them",
       "Many young people experience similar emotions",
       "Thank you for trusting me with this",
       "I hear you, and what you're feeling matters",
       "It takes courage to express these feelings",
       "You're not alone in feeling this way" >>

---------------------------------------------------------------------------
(* Michigan skill: isOfflineMode, analyzeEmotionalContent *)

\* env is process.env.OFFLINE_MODE.  When context.system is truthy the
\* function returns from the first branch and never reads the environment.
isOfflineMode(context, env) ==
    IF Truthy(context) /\ Truthy(Get(context.value, "system"))
    THEN LET system == Get(context.value, "system").value IN
         \/ Get(system, "offlineMode") = Bool(TRUE)
         \/ Get(system, "offline") = Bool(TRUE)
         \/ Get(system, "networkStatus") = Str(<<"offline">>)
    ELSE IF env = Str(<<"true">>) \/ env = Str(<<"1">>)
    THEN TRUE
    ELSE FALSE

\* Array.prototype.some(keyword => lowerMessage.includes(keyword))
some(keywords, lowerMessage) ==
    \E k \in 1..Len(keywords) : includes(lowerMessage, keywords[k])

analyzeEmotionalContent_distressFirst(message) ==
    LET lowerMessage == toLowerCase(message)
        hasCrisis    == some(CRISIS_KEYWORDS, lowerMessage)
        hasDistress  == some(DISTRESS_KEYWORDS, lowerMessage)
    IN [ hasCrisis        |-> hasCrisis,
         hasDistress      |-> hasDistress,
         emotionLevel     |-> IF hasDistress THEN "distress"
                              ELSE IF hasCrisis THEN "crisis"
                              ELSE "neutral",
         suggestResources |-> hasCrisis \/ hasDistress ]

analyzeEmotionalContent(message) ==
    LET lowerMessage == toLowerCase(message)
        hasCrisis    == some(CRISIS_KEYWORDS, lowerMessage)
        hasDistress  == some(DISTRESS_KEYWORDS, lowerMessage)
    IN [ hasCrisis        |-> hasCrisis,
         hasDistress      |-> hasDistress,
         emotionLevel     |-> IF hasCrisis THEN "crisis"
                              ELSE IF hasDistress THEN "distress"
                              ELSE "neutral",
         suggestResources |-> hasCrisis \/ hasDistress ]

---------------------------------------------------------------------------
(* Michigan skill: generateValidation, formatResourceSuggestions,          *)
(* generateEmpathyResponse                                                 *)

\* index is Math.floor(Math.random() * VALIDATION_PHRASES.length) + 1.
generateValidation(index) == VALIDATION_PHRASES[index]

ImmediateSupportHeading == "**Immediate Support Available:**"

MichiganResourcesHeading == "**Michigan Resources for Support:**"

\* A variant of formatResourceSuggestions that has no distress branch.
formatResourceSuggestions_crisisOnly(emotionLevel) ==
    IF emotionLevel = "crisis"
    THEN << "\n\n", ImmediateSupportHeading, "\n",
            "U+1F198 **", MICHIGAN_RESOURCES.suicide988.name, "**: ",
            MICHIGAN_RESOURCES.suicide988.contact, " (",
            MICHIGAN_RESOURCES.suicide988.availability, ")", "\n",
            "U+1F4AC **", MICHIGAN_RESOURCES.crisisTextLine.name, "**: ",
            MICHIGAN_RESOURCES.crisisTextLine.contact, "\n",
            "\nYou don't have to go through this alone. These resources are here to help right now." >>
    ELSE << >>

formatResourceSuggestions(emotionLevel) ==
    IF emotionLevel = "crisis"
    THEN << "\n\n", ImmediateSupportHeading, "\n",
            "U+1F198 **", MICHIGAN_RESOURCES.suicide988.name, "**: ",
            MICHIGAN_RESOURCES.suicide988.contact, " (",
            MICHIGAN_RESOURCES.suicide988.availability, ")", "\n",
            "U+1F4AC **", MICHIGAN_RESOURCES.crisisTextLine.name, "**: ",
            MICHIGAN_RESOURCES.crisisTextLine.contact, "\n",
            "\nYou don't have to go through this alone. These resources are here to help right now." >>
    ELSE IF emotionLevel = "distress"
    THEN << "\n\n", MichiganResourcesHeading, "\n",
            "U+2022 **", MICHIGAN_RESOURCES.suicide988.name, "**: ",
            MICHIGAN_RESOURCES.suicide988.contact, " (",
            MICHIGAN_RESOURCES.suicide988.availability, ")", "\n",
            "U+2022 **", MICHIGAN_RESOURCES.namiMichigan.name, "**: ",
            MICHIGAN_RESOURCES.namiMichigan.helpline, " - ",
            MICHIGAN_RESOURCES.namiMichigan.description, "\n",
            "U+2022 **", MICHIGAN_RESOURCES.teenLine.name, "**: ",
            MICHIGAN_RESOURCES.teenLine.contact, "\n",
            "\nThese resources are free, confidential, and here for you." >>
    ELSE << >>

PrivacyNotice ==
    "U+1F512 **Privacy Mode**: Your conversation is staying private on your device."

\* Pieces that consist of white space only.
WhiteSpacePieces == { " ", "\n", "\n\n" }

\* String.prototype.trim on a composed text: white space is stripped from
\* both ends, never from the middle.
RECURSIVE trimStart(_)
trimStart(s) ==
    IF s # << >> /\ Head(s) \in WhiteSpacePieces
    THEN trimStart(Tail(s)) ELSE s

RECURSIVE trimEnd(_)
trimEnd(s) ==
    IF s # << >> /\ s[Len(s)] \in WhiteSpacePieces
    THEN trimEnd(SubSeq(s, 1, Len(s) - 1)) ELSE s

trim(s) == trimEnd(trimStart(s))

generateEmpathyResponse(message, analysis, offline, index) ==
    trim(
       ( IF analysis.hasDistress \/ analysis.hasCrisis
         THEN << generateValidation(index), ".", " " >> ELSE << >> )
       \o ( IF offline THEN << "\n\n", PrivacyNotice, " " >> ELSE << >> )
       \o ( IF analysis.suggestResources
            THEN formatResourceSuggestions(analysis.emotionLevel)
            ELSE << >> ) )

---------------------------------------------------------------------------
(* Michigan skill: run *)

\* A variant of extractMessage with one fault: params.text is looked at
\* before params.message.
extractMessage_textFirst(params) ==
    LET own == IF params.type = "object" THEN params.value ELSE EmptyObject
    IN Or(Or(Or(Get(own, "text"), Get(own, "message")),
             Get(own, "content")),
          Str(<< >>))

\* params.message || params.text || params.content || ''
\* A property read on a primitive (a string, a boolean) gives undefined.
extractMessage(params) ==
    LET own == IF params.type = "object" THEN params.value ELSE EmptyObject
    IN Or(Or(Or(Get(own, "message"), Get(own, "text")),
             Get(own, "content")),
          Str(<< >>))

\* A variant of run with one fault: metadata.resourcesShared reports the
\* crisis resources only.
run_sharedOnCrisisOnly(context, params, env, index) ==
    IF params.type \in {"undefined", "null"}
    THEN [ success |-> FALSE, error |-> "TypeError", response |-> << >> ]
    ELSE LET message == extractMessage(params) IN
         IF ~Truthy(message)
         THEN [ success |-> TRUE, empathyLevel |-> "none", response |-> << >> ]
         ELSE LET offline  == isOfflineMode(context, env)
                  analysis == analyzeEmotionalContent(message.value)
                  response == generateEmpathyResponse(message.value, analysis,
                                                      offline, index)
              IN [ success      |-> TRUE,
                   empathyLevel |-> analysis.emotionLevel,
                   hasResources |-> analysis.suggestResources,
                   offline      |-> offline,
                   response     |-> response,
                   metadata     |->
                      [ triggeredOn     |-> "all-messages",
                        privacyMode     |-> offline,
                        resourcesShared |-> analysis.hasCrisis,
                        emotionLevel    |-> analysis.emotionLevel ] ]

\* Reading a property of undefined or null throws a TypeError, which the
\* try / catch of run turns into a failure result.
run(context, params, env, index) ==
    IF params.type \in {"undefined", "null"}
    THEN [ success |-> FALSE, error |-> "TypeError", response |-> << >> ]
    ELSE LET message == extractMessage(params) IN
         IF ~Truthy(message)
         THEN [ success |-> TRUE, empathyLevel |-> "none", response |-> << >> ]
         ELSE LET offline  == isOfflineMode(context, env)
                  analysis == analyzeEmotionalContent(message.value)
                  response == generateEmpathyResponse(message.value, analysis,
                                                      offline, index)
              IN [ success      |-> TRUE,
                   empathyLevel |-> analysis.emotionLevel,
                   hasResources |-> analysis.suggestResources,
                   offline      |-> offline,
                   response     |-> response,
                   metadata     |->
                      [ triggeredOn     |-> "all-messages",
                        privacyMode     |-> offline,
                        resourcesShared |-> analysis.suggestResources,
                        emotionLevel    |-> analysis.emotionLevel ] ]

---------------------------------------------------------------------------
(* Inputs *)

\* Underlying responses handed to process / chat: none, empty, some text.
AiResponses == { JsNull, Str(<< >>), Str(<< "Here is some advice" >>) }

\* Values of new Date().toISOString().
Timestamps == { "2026-01-01T00:00:00.000Z" }

\* Analyses handed to suggestResources directly: any shape a caller can
\* build, not only the ones validateEmotions returns.
EmotionLabels == { emotionPatterns[i].emotion : i \in 1..Len(emotionPatterns) }

Intensities == { "moderate", "high", "critical" }

EmotionLists ==
    { << >>, << "anxiety" >>, << "crisis" >>, << "anxiety", "sadness" >>,
      << "anxiety", "sadness", "anger" >>,
      << "anxiety", "sadness", "anger", "fear" >>,
      << "anxiety", "sadness", "anger", "fear", "overwhelm" >>,
      << "sadness", "crisis" >> }

EmotionData ==
    [ emotions : EmotionLists, isCrisis : BOOLEAN, intensity : Intensities ]

\* Levels handed to formatResourceSuggestions, one of them unknown.
EmotionLevels == { "crisis", "distress", "neutral", "none" }

\* context.system objects.
Systems ==
    { EmptyObject,
      [offlineMode |-> Bool(TRUE)],
      [offlineMode |-> Bool(FALSE)],
      [offline |-> Bool(TRUE)],
      [networkStatus |-> Str(<<"offline">>)],
      [networkStatus |-> Str(<<"online">>)] }

\* Execution contexts: none, {} and { system: ... }.
Contexts ==
    { JsUndefined, Obj(EmptyObject) }
    \cup { Obj([system |-> Obj(s)]) : s \in Systems }

\* Values of process.env.OFFLINE_MODE.
EnvValues == { JsUndefined, Str(<<"true">>), Str(<<"1">>), Str(<<"false">>) }

\* params.text, a lower-priority alias of the message: absent, or a
\* distress text.
AliasValues == { JsUndefined, Str(<<"u","p","s","e","t">>) }

\* params.content, the alias of lowest priority: absent, or a crisis text.
ContentValues == { JsUndefined, Str(<<"c","u","t","t","i","n","g">>) }

MessageValues ==
    { JsUndefined }
    \cup { Str(m) : m \in MessagesOver(RunFragments, MaxRunWords) }

\* An object literal with the properties whose value is not undefined.
ParamsObject(message, text, content) ==
    LET all == [message |-> message, text |-> text, content |-> content]
        present == { f \in DOMAIN all : all[f] # JsUndefined }
    IN Obj([f \in present |-> all[f]])

\* run's params: missing, null, a bare string, or an object.
Params ==
    { JsUndefined, JsNull, Str(<<"S","A","D">>) }
    \cup { ParamsObject(m, t, c) :
              m \in MessageValues, t \in AliasValues, c \in ContentValues }

\* Configs of a stand-alone EmpathyAnchor: none, a custom crisis hotline,
\* and a custom hotline with offlineMode: false.
HotlineConfigs ==
    { EmptyObject,
      [crisisHotline |-> Str(<< "1-800-XXX-XXXX" >>)],
      [crisisHotline |-> Str(<< "1-800-XXX-XXXX" >>),
       offlineMode   |-> Bool(FALSE)] }

\* Responses handed to wrapWithCompassion directly.
OriginalResponses == { << >>, << "Here is some advice" >> }

\* Values a caller of the wrapper can pass as the message.
CallerValues ==
    { JsUndefined, JsNull, Num(0), Num(123), Bool(FALSE), Bool(TRUE),
      JsArray(<< >>), Obj(EmptyObject) }
    \cup { Str(m) : m \in MessagesOver(ChatFragments, MaxChatWords) }

\* Constructor configs: none (the parameter defaults to {}), and
\* { offlineMode: v } for undefined, false, true and a string.
Configs ==
    { EmptyObject }
    \cup { [offlineMode |-> v] :
              v \in { JsUndefined, Bool(FALSE), Bool(TRUE), Str(<<"yes">>) } }

\* Lines typed into the interactive loop: the exit word in two letter
\* cases, the exit word with a trailing space, an empty line, a neutral
\* line and a crisis line.
InputLines ==
    { <<"e","x","i","t">>, <<"E","x","I","T">>, <<"e","x","i","t"," ">>,
      << >>, <<"h","e","l","l","o">>,
      <<"K","i","l","l"," ","m","y","s","e","l","f">> }

\* The draws of the responses the loop prints; the loop does not look at
\* the wording, so the first and the last phrase of each pool stand for
\* the pools.
CliDraws ==
    { [opening |-> 1, validation |-> 1, supportive |-> 1],
      [ opening    |-> Len(compassionateFrames.opening),
        validation |-> Len(compassionateFrames.validation),
        supportive |-> Len(compassionateFrames.supportive) ] }

---------------------------------------------------------------------------
(* The safety service: alert dispatcher and circuit breaker.  Its code is  *)
(* not among the sources; it is modelled from the specification (4.2, 4.3, *)
(* 5) and the README of the safety module.                                 *)

\* Consecutive failed dispatch attempts that open the circuit.
FailureThreshold == 5

\* Seconds the circuit stays open before the next call is let through.
timeout_seconds == 60

\* Seconds per clock tick.
TickSeconds == timeout_seconds \div 2

\* The process-wide breaker state when the service starts.
CircuitBreakerState ==
    [ state |-> "closed", consecutive_failures |-> 0, opened_at |-> 0 ]

\* The circuit is open and its timeout has not elapsed: the call is
\* short-circuited.
shortCircuited(breaker, now) ==
    /\ breaker.state = "open"
    /\ now - breaker.opened_at < timeout_seconds

\* A call is let through: the breaker stays closed, or an open breaker
\* whose timeout has elapsed becomes half-open for the probe.
letThrough(breaker) ==
    [breaker EXCEPT !.state = IF @ = "open" THEN "half-open" ELSE @]

\* A variant of recordSuccess with one fault: the counter is not reset.
recordSuccess_keepsCounter(breaker) ==
    [breaker EXCEPT !.state = "closed"]

\* A delivery attempt succeeded.
recordSuccess(breaker) ==
    [breaker EXCEPT !.state = "closed", !.consecutive_failures = 0]

\* A variant of recordFailure with one fault: the circuit opens on the
\* sixth consecutive failure.
recordFailure_opensLate(breaker, now) ==
    IF breaker.state = "half-open"
    THEN [breaker EXCEPT !.state = "open", !.opened_at = now]
    ELSE LET failures == breaker.consecutive_failures + 1 IN
         IF failures > FailureThreshold
         THEN [ state |-> "open", consecutive_failures |-> failures,
                opened_at |-> now ]
         ELSE [breaker EXCEPT !.consecutive_failures = failures]

\* A delivery attempt failed: a failed probe reopens the circuit and
\* restarts the timer; otherwise the failure is counted, and the fifth in a
\* row opens the circuit.
recordFailure(breaker, now) ==
    IF breaker.state = "half-open"
    THEN [breaker EXCEPT !.state = "open", !.opened_at = now]
    ELSE LET failures == breaker.consecutive_failures + 1 IN
         IF failures >= FailureThreshold
         THEN [ state |-> "open", consecutive_failures |-> failures,
                opened_at |-> now ]
         ELSE [breaker EXCEPT !.consecutive_failures = failures]

\* The outcomes of a delivery attempt: delivered, or failed and reported as
\* mock or as failed.
DeliveryOutcomes == { "sent", "mock", "failed" }

\* The two checking endpoints.
RequestKinds == { "check_chat", "check_location" }

\* The HTTP response of a check: the verdict of the scan or the geofence.
\* A flagged request is answered while its alert is being dispatched.
respond(kind, flagged) ==
    IF ~flagged THEN [code |-> 200, body |-> "safe"]
    ELSE IF kind = "check_chat"
    THEN [code |-> 200, body |-> "blocked: potential threat"]
    ELSE [code |-> 200, body |-> "alert: Outside safe zone"]

\* A variant of dispatched with one fault: a dispatch that did not deliver
\* turns the request into a failure.
dispatched_failsRequest(entry, status) ==
    IF status = "sent"
    THEN [entry EXCEPT !.dispatch = status]
    ELSE [entry EXCEPT !.dispatch = status,
                       !.response = [code |-> 500, body |-> "error"]]

\* The dispatch of a request's alert ended with status; the response the
\* client got is not touched.
dispatched(entry, status) == [entry EXCEPT !.dispatch = status]

\* The chat-check endpoint's handling of one request, stage by stage.
\* No request is being handled.
NoRequest ==
    [ stage |-> "IDLE", trail |-> << >>, token |-> "none", body |-> "none",
      bytes |-> 0, threat |-> FALSE, scans |-> 0, flagged |-> FALSE,
      alerts |-> 0, response |-> [code |-> 0, body |-> "none"] ]

\* The maximum size of a free-text message field: 10 KB.
MaxMessageBytes == 10240

\* What a request can carry as its bearer token.
Tokens == { "absent", "malformed", "expired", "bad-signature", "valid" }

\* What a request can carry as its body: no JSON, JSON without a message,
\* JSON with a message.
Bodies == { "not-json", "no-message", "message" }

\* The sizes of the message tried: small, exactly the limit, one byte over.
MessageSizes == { 1, MaxMessageBytes, MaxMessageBytes + 1 }

\* A variant of verify_token with one fault: an expired token is accepted.
verify_token_acceptsExpired(token) == token \in { "valid", "expired" }

\* Token verification: absent, malformed, expired and badly signed tokens
\* all fail.
verify_token(token) == token = "valid"

\* A variant of validate with one fault: no size limit on the message.
validate_noSizeLimit(body, bytes) ==
    IF body = "not-json" THEN "Invalid JSON"
    ELSE IF body = "no-message" THEN "Missing message"
    ELSE "ok"

\* Validation of the payload: JSON, with a message, of at most 10 KB.
validate(body, bytes) ==
    IF body = "not-json" THEN "Invalid JSON"
    ELSE IF body = "no-message" THEN "Missing message"
    ELSE IF bytes > MaxMessageBytes THEN "Message too large"
    ELSE "ok"

\* The request moves to a stage, which is added to its trail.
moveTo(request, stage) ==
    [request EXCEPT !.stage = stage, !.trail = Append(@, stage)]

\* The request is answered.
answer(request, code, body) ==
    [moveTo(request, "RESPONDED") EXCEPT
        !.response = [code |-> code, body |-> body]]

---------------------------------------------------------------------------
(* State machine: one call at a time, then its result is consumed.  call    *)
(* holds the operation and its arguments, ret the operation and the value  *)
(* it returned.                                                            *)

\* const openclaw = new OpenClaw() and const anchor = new EmpathyAnchor():
\* the config parameter defaults to {}.
Init ==
    /\ openclaw = OpenClawConstructor(EmptyObject)
    /\ pc = "ready"
    /\ call = NoCall
    /\ ret = NoCall
    /\ cli = [ state |-> "off", typed |-> << >>, forwarded |-> << >>,
               output |-> << >> ]
    /\ service = [ breaker    |-> CircuitBreakerState,
                   now        |-> 0,
                   log        |-> << >>,
                   attempting |-> 0,
                   request    |-> NoRequest ]
    /\ anchor = EmpathyAnchorConstructor(EmptyObject)

ValidateEmotions ==
    /\ pc = "ready"
    /\ \E text \in Messages(MaxWords) :
          /\ call' = [op |-> "validateEmotions", text |-> text]
          /\ ret' = [ op |-> "validateEmotions",
                      returns |-> validateEmotions(text) ]
    /\ pc' = "returned"
    /\ UNCHANGED << openclaw, cli, service, anchor >>

SuggestResources ==
    /\ pc = "ready"
    /\ \E emotionData \in EmotionData :
          /\ call' = [op |-> "suggestResources", emotionData |-> emotionData]
          /\ ret' = [ op |-> "suggestResources",
                      returns |-> suggestResources(emotionData) ]
    /\ pc' = "returned"
    /\ UNCHANGED << openclaw, cli, service, anchor >>

\* A variant of Process with one fault: a crisis message switches the
\* instance out of offline mode.
Process_crisisGoesOnline ==
    /\ pc = "ready"
    /\ \E userInput \in MessagesOver(ChatFragments, MaxChatWords), aiResponse \in AiResponses,
          rnd \in RandomDraws, now \in Timestamps :
          /\ call' = [ op |-> "process", userInput |-> userInput,
                       aiResponse |-> aiResponse, rnd |-> rnd ]
          /\ ret' = [ op |-> "process",
                      returns |-> process(userInput, aiResponse, rnd, now) ]
          /\ openclaw' =
                IF isCrisisDetected(userInput)
                THEN [openclaw EXCEPT
                         !.empathyAnchor.config.offlineMode = Bool(FALSE)]
                ELSE openclaw
    /\ pc' = "returned"
    /\ UNCHANGED << cli, service, anchor >>

Process ==
    /\ pc = "ready"
    /\ \E userInput \in MessagesOver(ChatFragments, MaxChatWords), aiResponse \in AiResponses,
          rnd \in RandomDraws, now \in Timestamps :
          /\ call' = [ op |-> "process", userInput |-> userInput,
                       aiResponse |-> aiResponse, rnd |-> rnd ]
          /\ ret' = [ op |-> "process",
                      returns |-> process(userInput, aiResponse, rnd, now) ]
    /\ pc' = "returned"
    /\ UNCHANGED << openclaw, cli, service, anchor >>

Chat ==
    /\ pc = "ready"
    /\ \E message \in MessagesOver(ChatFragments, MaxChatWords), aiResponse \in AiResponses,
          rnd \in RandomDraws, now \in Timestamps :
          /\ call' = [ op |-> "chat", message |-> message,
                       aiResponse |-> aiResponse, rnd |-> rnd ]
          /\ ret' = [ op |-> "chat",
                      returns |-> chat(message, aiResponse, rnd, now),
                      invoked |-> chatInvokes(message) ]
    /\ pc' = "returned"
    /\ UNCHANGED << openclaw, cli, service, anchor >>

AnalyzeEmotionalContent ==
    /\ pc = "ready"
    /\ \E message \in Messages(MaxWords) :
          /\ call' = [op |-> "analyzeEmotionalContent", message |-> message]
          /\ ret' = [ op |-> "analyzeEmotionalContent",
                      returns |-> analyzeEmotionalContent(message) ]
    /\ pc' = "returned"
    /\ UNCHANGED << openclaw, cli, service, anchor >>

FormatResourceSuggestions ==
    /\ pc = "ready"
    /\ \E emotionLevel \in EmotionLevels :
          /\ call' = [ op |-> "formatResourceSuggestions",
                       emotionLevel |-> emotionLevel ]
          /\ ret' = [ op |-> "formatResourceSuggestions",
                      returns |-> formatResourceSuggestions(emotionLevel) ]
    /\ pc' = "returned"
    /\ UNCHANGED << openclaw, cli, service, anchor >>

\* openclaw = new OpenClaw(config)
NewOpenClaw ==
    /\ pc = "ready"
    /\ \E config \in Configs :
          /\ call' = [op |-> "new OpenClaw", config |-> config]
          /\ openclaw' = OpenClawConstructor(config)
          /\ ret' = [ op |-> "new OpenClaw",
                      returns |-> OpenClawConstructor(config) ]
    /\ pc' = "returned"
    /\ UNCHANGED << cli, service, anchor >>

\* new EmpathyAnchor(config), handed to the caller.
NewEmpathyAnchor ==
    /\ pc = "ready"
    /\ \E config \in Configs :
          /\ call' = [op |-> "new EmpathyAnchor", config |-> config]
          /\ ret' = [ op |-> "new EmpathyAnchor",
                      returns |-> EmpathyAnchorConstructor(config) ]
    /\ pc' = "returned"
    /\ UNCHANGED << openclaw, cli, service, anchor >>

CallChat ==
    /\ pc = "ready"
    /\ \E message \in CallerValues, aiResponse \in AiResponses,
          rnd \in RandomDraws, now \in Timestamps :
          /\ call' = [ op |-> "OpenClaw.chat", message |-> message,
                       aiResponse |-> aiResponse, rnd |-> rnd ]
          /\ ret' = [op |-> "OpenClaw.chat"]
                       @@ callChat(message, aiResponse, rnd, now)
    /\ pc' = "returned"
    /\ UNCHANGED << openclaw, cli, service, anchor >>

CallCheckCrisis ==
    /\ pc = "ready"
    /\ \E message \in CallerValues :
          /\ call' = [op |-> "OpenClaw.checkCrisis", message |-> message]
          /\ ret' = [op |-> "OpenClaw.checkCrisis"]
                       @@ callCheckCrisis(message)
    /\ pc' = "returned"
    /\ UNCHANGED << openclaw, cli, service, anchor >>

CallValidateEmotions ==
    /\ pc = "ready"
    /\ \E message \in CallerValues :
          /\ call' = [op |-> "OpenClaw.validateEmotions", message |-> message]
          /\ ret' = [op |-> "OpenClaw.validateEmotions"]
                       @@ callValidateEmotions(message)
    /\ pc' = "returned"
    /\ UNCHANGED << openclaw, cli, service, anchor >>

IsOfflineMode ==
    /\ pc = "ready"
    /\ \E context \in Contexts, env \in EnvValues :
          /\ call' = [op |-> "isOfflineMode", context |-> context, env |-> env]
          /\ ret' = [ op |-> "isOfflineMode",
                      returns |-> isOfflineMode(context, env) ]
    /\ pc' = "returned"
    /\ UNCHANGED << openclaw, cli, service, anchor >>

Run ==
    /\ pc = "ready"
    /\ \E context \in Contexts, params \in Params, env \in EnvValues,
          index \in 1..Len(VALIDATION_PHRASES) :
          /\ call' = [ op |-> "run", context |-> context, params |-> params,
                       env |-> env, index |-> index ]
          /\ ret' = [ op |-> "run",
                      returns |-> run(context, params, env, index) ]
    /\ pc' = "returned"
    /\ UNCHANGED << openclaw, cli, service, anchor >>

\* The caller takes the result; the skill is ready for the next call.
Return ==
    /\ pc = "returned"
    /\ pc' = "ready"
    /\ call' = NoCall
    /\ ret' = NoCall
    /\ UNCHANGED << openclaw, cli, service, anchor >>

\* The detectors of the class alone.
NextDetect ==
    \/ ValidateEmotions
    \/ SuggestResources
    \/ Return

SpecDetect == Init /\ [][NextDetect]_vars

\* The class EmpathyAnchor and its wrapper OpenClaw.
Next ==
    \/ ValidateEmotions
    \/ SuggestResources
    \/ Process
    \/ Chat
    \/ Return

Spec == Init /\ [][Next]_vars

---------------------------------------------------------------------------
(* The interactive loop of src/index.js.  cli.state is "off" before the   *)
(* program starts, "asking" while rl.question waits for a line, "closed"  *)
(* after rl.close(); typed is every line typed so far, forwarded the      *)
(* lines handed to chat, output what console.log and the prompt printed.  *)

Printed(kind, text) == [kind |-> kind, text |-> text]

Banner == Printed("banner", << "Type \"exit\" to quit." >>)

Prompt == Printed("prompt", << "You: " >>)

Farewell ==
    Printed("farewell",
            << "Take care of yourself. Remember, you're not alone." >>)

CrisisAlert ==
    Printed("crisis-alert",
            << "CRISIS ALERT: Please reach out to the resources mentioned above immediately." >>)

\* A variant of alertFor with one fault: the alert is printed for every
\* line the skill analysed.
alertFor_anyAnalysis(chatResult) ==
    IF "isCrisis" \in DOMAIN chatResult.metadata
    THEN << CrisisAlert >> ELSE << >>

\* if (result.metadata.isCrisis) console.log(the alert): what is printed
\* after the response.
alertFor(chatResult) ==
    IF "isCrisis" \in DOMAIN chatResult.metadata
       /\ chatResult.metadata.isCrisis
    THEN << CrisisAlert >> ELSE << >>

\* A variant of isExit with one fault: the comparison is case-sensitive.
isExit_caseSensitive(input) == input = <<"e","x","i","t">>

\* input.toLowerCase() === 'exit'
isExit(input) == toLowerCase(input) = <<"e","x","i","t">>

\* The program starts: the wrapper is built with offlineMode: true, the
\* banner is printed and promptUser() asks the first question.
Main ==
    /\ cli.state = "off"
    /\ pc = "ready"
    /\ openclaw' = OpenClawConstructor([offlineMode |-> Bool(TRUE)])
    /\ cli' = [cli EXCEPT !.state = "asking",
                          !.output = << Banner, Prompt >>]
    /\ UNCHANGED << pc, call, ret, service, anchor >>

\* The callback of rl.question runs with the line that was typed: exit
\* says farewell and closes; any other line goes to chat, the response is
\* printed, the crisis alert too when metadata.isCrisis is truthy, and
\* promptUser() asks again.
OnLine ==
    /\ cli.state = "asking"
    /\ Len(cli.typed) < MaxLines
    /\ \E input \in InputLines, rnd \in CliDraws, now \in Timestamps :
          IF isExit(input)
          THEN cli' = [cli EXCEPT !.typed = Append(@, input),
                                  !.output = Append(@, Farewell),
                                  !.state = "closed"]
          ELSE LET chatResult == chat(input, JsNull, rnd, now) IN
               cli' = [cli EXCEPT
                   !.typed = Append(@, input),
                   !.forwarded = Append(@, input),
                   !.output =
                       @ \o << Printed("response", chatResult.response) >>
                         \o alertFor(chatResult)
                         \o << Prompt >> ]
    /\ UNCHANGED << openclaw, pc, call, ret, service, anchor >>

\* A line typed after rl.close(): nothing reads it.
LineAfterClose ==
    /\ cli.state = "closed"
    /\ Len(cli.typed) < MaxLines
    /\ \E input \in InputLines :
          cli' = [cli EXCEPT !.typed = Append(@, input)]
    /\ UNCHANGED << openclaw, pc, call, ret, service, anchor >>

NextCli ==
    \/ Main
    \/ OnLine
    \/ LineAfterClose

SpecCli == Init /\ [][NextCli]_vars

---------------------------------------------------------------------------
(* The safety service.  service.log holds the requests answered and not   *)
(* yet forgotten, each with its kind, the response sent and the state of  *)
(* its alert: "none", "pending", "attempting", or a dispatch status.      *)
(* service.attempting is the log position of the alert being delivered.   *)

\* The alerts scheduled and not yet taken up, oldest first.
pendingAlerts ==
    { i \in 1..Len(service.log) : service.log[i].dispatch = "pending" }

\* POST /check_chat or /check_location: the request is scanned, a flagged
\* one schedules its alert with send_alert_async, and the response is sent.
CheckRequest ==
    /\ Len(service.log) < MaxLog
    /\ \E kind \in RequestKinds, flagged \in BOOLEAN :
          service' = [service EXCEPT !.log =
              Append(@, [ kind     |-> kind,
                          response |-> respond(kind, flagged),
                          dispatch |-> IF flagged THEN "pending"
                                       ELSE "none" ])]
    /\ UNCHANGED << openclaw, pc, call, ret, cli, anchor >>

\* The dispatcher takes up the oldest scheduled alert: an open circuit
\* within its timeout reports circuit-open at once; otherwise the delivery
\* attempt starts.
BeginDispatch ==
    /\ service.attempting = 0
    /\ pendingAlerts # {}
    /\ LET i == CHOOSE i \in pendingAlerts : \A j \in pendingAlerts : i <= j
       IN IF shortCircuited(service.breaker, service.now)
          THEN service' = [service EXCEPT
                   !.log[i] = dispatched(@, "circuit-open")]
          ELSE service' = [service EXCEPT
                   !.breaker = letThrough(@),
                   !.log[i].dispatch = "attempting",
                   !.attempting = i]
    /\ UNCHANGED << openclaw, pc, call, ret, cli, anchor >>

\* The delivery attempt ends.
EndDispatch ==
    /\ service.attempting # 0
    /\ \E status \in DeliveryOutcomes :
          service' = [service EXCEPT
              !.breaker = IF status = "sent" THEN recordSuccess(@)
                          ELSE recordFailure(@, service.now),
              !.log[service.attempting] = dispatched(@, status),
              !.attempting = 0]
    /\ UNCHANGED << openclaw, pc, call, ret, cli, anchor >>

\* Time passes.
Tick ==
    /\ service.now < MaxTicks * TickSeconds
    /\ service' = [service EXCEPT !.now = @ + TickSeconds]
    /\ UNCHANGED << openclaw, pc, call, ret, cli, anchor >>

\* The oldest request is over (answered, its alert dispatched): nothing is
\* kept of it.
Forget ==
    /\ service.log # << >>
    /\ Head(service.log).dispatch \notin {"pending", "attempting"}
    /\ service' = [service EXCEPT
           !.log = Tail(@),
           !.attempting = IF @ = 0 THEN 0 ELSE @ - 1]
    /\ UNCHANGED << openclaw, pc, call, ret, cli, anchor >>

NextService ==
    \/ CheckRequest
    \/ BeginDispatch
    \/ EndDispatch
    \/ Tick
    \/ Forget

SpecService == Init /\ [][NextService]_vars

\* POST /check_chat arrives.
Receive ==
    /\ service.request.stage = "IDLE"
    /\ \E token \in Tokens, body \in Bodies, bytes \in MessageSizes,
          threat \in BOOLEAN :
          service' = [service EXCEPT !.request =
              moveTo([NoRequest EXCEPT !.token = token, !.body = body,
                                       !.bytes = bytes, !.threat = threat],
                     "RECEIVED")]
    /\ UNCHANGED << openclaw, pc, call, ret, cli, anchor >>

\* The bearer token is verified; any failure is the generic 401.
Authenticate ==
    /\ service.request.stage = "RECEIVED"
    /\ service' = [service EXCEPT !.request =
           IF verify_token(@.token)
           THEN moveTo(@, "AUTHENTICATED")
           ELSE answer(@, 401, "Invalid token")]
    /\ UNCHANGED << openclaw, pc, call, ret, cli, anchor >>

\* The payload is validated; any failure is a 400.
Validate ==
    /\ service.request.stage = "AUTHENTICATED"
    /\ service' = [service EXCEPT !.request =
           IF validate(@.body, @.bytes) = "ok"
           THEN moveTo(@, "VALIDATED")
           ELSE answer(@, 400, validate(@.body, @.bytes))]
    /\ UNCHANGED << openclaw, pc, call, ret, cli, anchor >>

\* The message is handed to the scanning engine.
Scan ==
    /\ service.request.stage = "VALIDATED"
    /\ service' = [service EXCEPT !.request =
           [moveTo(@, "SCANNED") EXCEPT !.scans = @ + 1,
                                        !.flagged = service.request.threat]]
    /\ UNCHANGED << openclaw, pc, call, ret, cli, anchor >>

\* The verdict decides between flagged and safe.
Classify ==
    /\ service.request.stage = "SCANNED"
    /\ service' = [service EXCEPT !.request =
           moveTo(@, IF @.flagged THEN "FLAGGED" ELSE "SAFE")]
    /\ UNCHANGED << openclaw, pc, call, ret, cli, anchor >>

\* The alert of a flagged request is handed to send_alert_async.
DispatchAlert ==
    /\ service.request.stage = "FLAGGED"
    /\ service' = [service EXCEPT !.request =
           [moveTo(@, "ALERT_DISPATCHED") EXCEPT !.alerts = @ + 1]]
    /\ UNCHANGED << openclaw, pc, call, ret, cli, anchor >>

\* The verdict is sent back.
Respond ==
    /\ service.request.stage \in { "ALERT_DISPATCHED", "SAFE" }
    /\ service' = [service EXCEPT !.request =
           LET r == respond("check_chat", @.flagged)
           IN answer(@, r.code, r.body)]
    /\ UNCHANGED << openclaw, pc, call, ret, cli, anchor >>

\* The request is over.
Finish ==
    /\ service.request.stage = "RESPONDED"
    /\ service' = [service EXCEPT !.request = NoRequest]
    /\ UNCHANGED << openclaw, pc, call, ret, cli, anchor >>

NextRequest ==
    \/ Receive
    \/ Authenticate
    \/ Validate
    \/ Scan
    \/ Classify
    \/ DispatchAlert
    \/ Respond
    \/ Finish

SpecRequest == Init /\ [][NextRequest]_vars

\* Construction with any config, then chat / process on the instance.
NextConfig ==
    \/ NewOpenClaw
    \/ NewEmpathyAnchor
    \/ Process
    \/ Chat
    \/ Return

SpecConfig == Init /\ [][NextConfig]_vars

---------------------------------------------------------------------------
(* A stand-alone skill instance: const anchor = new EmpathyAnchor(config), *)
(* then calls of its methods.                                              *)

\* anchor = new EmpathyAnchor(config)
NewAnchor ==
    /\ pc = "ready"
    /\ \E config \in HotlineConfigs :
          /\ call' = [op |-> "new EmpathyAnchor()", config |-> config]
          /\ anchor' = EmpathyAnchorConstructor(config)
          /\ ret' = [ op |-> "new EmpathyAnchor()",
                      returns |-> EmpathyAnchorConstructor(config) ]
    /\ pc' = "returned"
    /\ UNCHANGED << openclaw, cli, service >>

\* anchor.suggestResources(emotionData)
AnchorSuggestResources ==
    /\ pc = "ready"
    /\ \E emotionData \in EmotionData :
          /\ call' = [ op |-> "anchor.suggestResources",
                       emotionData |-> emotionData ]
          /\ ret' = [ op |-> "anchor.suggestResources",
                      returns |-> suggestResources(emotionData) ]
    /\ pc' = "returned"
    /\ UNCHANGED << openclaw, cli, service, anchor >>

\* anchor.process(userInput, aiResponse)
AnchorProcess ==
    /\ pc = "ready"
    /\ \E userInput \in MessagesOver(ChatFragments, MaxChatWords),
          aiResponse \in AiResponses, rnd \in CliDraws, now \in Timestamps :
          /\ call' = [ op |-> "anchor.process", userInput |-> userInput,
                       aiResponse |-> aiResponse, rnd |-> rnd ]
          /\ ret' = [ op |-> "anchor.process",
                      returns |-> processOf(anchor, userInput, aiResponse,
                                            rnd, now) ]
    /\ pc' = "returned"
    /\ UNCHANGED << openclaw, cli, service, anchor >>

NextAnchor ==
    \/ NewAnchor
    \/ AnchorSuggestResources
    \/ AnchorProcess
    \/ Return

SpecAnchor == Init /\ [][NextAnchor]_vars

\* The wrapper as its callers reach it, with any JavaScript value.
NextWrapper ==
    \/ CallChat
    \/ CallCheckCrisis
    \/ CallValidateEmotions
    \/ Return

SpecWrapper == Init /\ [][NextWrapper]_vars

\* The two composers, whose wording is drawn at random.
NextCompose ==
    \/ Process
    \/ Run
    \/ Return

SpecCompose == Init /\ [][NextCompose]_vars

---------------------------------------------------------------------------
(* Every operation of the skill, called in any order.                      *)

\* wrapWithCompassion(originalResponse, userInput)
WrapWithCompassion ==
    /\ pc = "ready"
    /\ \E originalResponse \in OriginalResponses,
          userInput \in MessagesOver(ChatFragments, MaxChatWords),
          rnd \in CliDraws :
          /\ call' = [ op |-> "wrapWithCompassion",
                       originalResponse |-> originalResponse,
                       userInput |-> userInput, rnd |-> rnd ]
          /\ ret' = [ op |-> "wrapWithCompassion",
                      returns |-> wrapWithCompassion(originalResponse,
                                                     userInput, rnd) ]
    /\ pc' = "returned"
    /\ UNCHANGED << openclaw, cli, service, anchor >>

NextSkill ==
    \/ ValidateEmotions
    \/ SuggestResources
    \/ WrapWithCompassion
    \/ Process
    \/ AnalyzeEmotionalContent
    \/ Run
    \/ Return

SpecSkill == Init /\ [][NextSkill]_vars

\* The Michigan skill.
NextMichigan ==
    \/ IsOfflineMode
    \/ AnalyzeEmotionalContent
    \/ FormatResourceSuggestions
    \/ Run
    \/ Return

SpecMichigan == Init /\ [][NextMichigan]_vars

---------------------------------------------------------------------------
(* Vocabulary of the properties *)

Returned(op) == pc = "returned" /\ call.op = op

\* The value the current call returned.
result == ret.returns

\* pattern occurs in text when letter case is ignored.
containsIgnoringCase(text, pattern) ==
    \E i \in 0..(Len(text) - Len(pattern)) :
        \A k \in 1..Len(pattern) :
            lowerChar(text[i + k]) = lowerChar(pattern[k])

containsAnyOf(text, patterns) ==
    \E k \in 1..Len(patterns) : containsIgnoringCase(text, patterns[k])

CrisisPhrases == crisisPatterns

hasCrisisPhrase(text) == containsAnyOf(text, CrisisPhrases)

FiveCategories ==
    [ anxiety   |-> anxietyPatterns,
      sadness   |-> sadnessPatterns,
      anger     |-> angerPatterns,
      fear      |-> fearPatterns,
      overwhelm |-> overwhelmPatterns ]

FiveLabels == DOMAIN FiveCategories

\* The categories among the five that have a term in text.
categoriesIn(text) ==
    { c \in FiveLabels : containsAnyOf(text, FiveCategories[c]) }

occurrences(seq, x) == Cardinality({ i \in 1..Len(seq) : seq[i] = x })

elements(seq) == { seq[i] : i \in 1..Len(seq) }

\* The composed text lists the resource as "- **name**: number".
listsResource(response, name, number) ==
    \E i \in 1..(Len(response) - 3) :
        /\ response[i] = "- **"
        /\ response[i + 1] = name
        /\ response[i + 2] = "**: "
        /\ response[i + 3] = number

has988Contact(response) ==
    listsResource(response, "988 Suicide & Crisis Lifeline", "988")

\* The message a process / chat call was given.
composedFor == IF call.op = "process" THEN call.userInput ELSE call.message

ComposedFromSkill ==
    /\ pc = "returned"
    /\ call.op \in {"process", "chat"}
    /\ "error" \notin DOMAIN result.metadata

---------------------------------------------------------------------------
(* C1 *)

\* C1: a message that contains a crisis phrase is classified isCrisis =
\* true with intensity 'critical' by validateEmotions, and the response that
\* process / chat compose for it lists the 988 crisis line, whatever other
\* emotion terms, underlying response and random phrases come with it.
C1_CrisisIsCriticalAndGets988 ==
    /\ ( Returned("validateEmotions") /\ hasCrisisPhrase(call.text) )
         => ( result.isCrisis /\ result.intensity = "critical" )
    /\ ( pc = "returned" /\ call.op \in {"process", "chat"}
         /\ hasCrisisPhrase(composedFor) )
         => ( /\ "error" \notin DOMAIN result.metadata
              /\ result.metadata.isCrisis
              /\ result.metadata.intensity = "critical"
              /\ has988Contact(result.response) )

\* A crisis message that also names other emotions, wrapped around a
\* supplied underlying response.
C1_Witness ==
    /\ Returned("chat")
    /\ hasCrisisPhrase(call.message)
    /\ categoriesIn(call.message) # {}
    /\ Truthy(call.aiResponse)
    /\ has988Contact(result.response)

---------------------------------------------------------------------------
(* C2 *)

\* C2: analyzeEmotionalContent classifies by case-insensitive substring:
\* 'crisis' whenever a CRISIS keyword occurs, 'distress' exactly when no
\* CRISIS keyword but a DISTRESS keyword occurs, 'neutral' exactly when
\* neither occurs; suggestResources is true exactly when the level is not
\* 'neutral'.
C2_TwoTierLevel ==
    Returned("analyzeEmotionalContent") =>
        LET crisis   == containsAnyOf(call.message, CRISIS_KEYWORDS)
            distress == containsAnyOf(call.message, DISTRESS_KEYWORDS)
        IN /\ crisis => result.emotionLevel = "crisis"
           /\ result.emotionLevel = "distress" <=> (~crisis /\ distress)
           /\ result.emotionLevel = "neutral" <=> (~crisis /\ ~distress)
           /\ result.emotionLevel \in {"crisis", "distress", "neutral"}
           /\ result.suggestResources <=> result.emotionLevel # "neutral"

\* A message with a distress keyword in upper case and a crisis keyword:
\* crisis takes precedence.
C2_Witness ==
    /\ Returned("analyzeEmotionalContent")
    /\ includes(call.message, <<"S","A","D">>)
    /\ containsAnyOf(call.message, CRISIS_KEYWORDS)
    /\ result.hasDistress
    /\ result.emotionLevel = "crisis"

---------------------------------------------------------------------------
(* C3 *)

---------------------------------------------------------------------------
(* C4 *)

\* C4: intensity is 'critical' if isCrisis, 'high' if not isCrisis and more
\* than 3 distinct emotions were detected, and 'moderate' otherwise.
C4_IntensityRule ==
    Returned("validateEmotions") =>
        result.intensity =
            IF result.isCrisis THEN "critical"
            ELSE IF Cardinality(elements(result.emotions)) > 3 THEN "high"
            ELSE "moderate"

\* Four categories without a crisis phrase, and exactly three of them.
C4_Witness ==
    /\ Returned("validateEmotions")
    /\ ~hasCrisisPhrase(call.text)
    /\ Cardinality(categoriesIn(call.text)) = 4
    /\ result.intensity = "high"

C4_WitnessModerate ==
    /\ Returned("validateEmotions")
    /\ Cardinality(categoriesIn(call.text)) = 3
    /\ result.intensity = "moderate"

---------------------------------------------------------------------------
(* C5 *)

SixLabels == FiveLabels \cup {"crisis"}

\* The original statement of C5: only the five labels are ever listed.
C5_OnlyFiveLabels ==
    /\ Returned("validateEmotions") => elements(result.emotions) \subseteq FiveLabels
    /\ ComposedFromSkill =>
          elements(result.metadata.emotionsDetected) \subseteq FiveLabels

\* C5 (amended): the emotions returned by validateEmotions, and reported as
\* metadata.emotionsDetected by process / chat, contain only the labels
\* anxiety, sadness, anger, fear, overwhelm and crisis, and the label crisis
\* is listed exactly when the isCrisis boolean is true.
C5_SixLabelsCrisisListedIffCrisis ==
    /\ Returned("validateEmotions") =>
          /\ elements(result.emotions) \subseteq SixLabels
          /\ "crisis" \in elements(result.emotions) <=> result.isCrisis
    /\ ComposedFromSkill =>
          /\ elements(result.metadata.emotionsDetected) \subseteq SixLabels
          /\ "crisis" \in elements(result.metadata.emotionsDetected)
                <=> result.metadata.isCrisis

\* A crisis message with another emotion term, reported by chat.
C5_Witness ==
    /\ Returned("chat")
    /\ hasCrisisPhrase(call.message)
    /\ result.metadata.isCrisis
    /\ "crisis" \in elements(result.metadata.emotionsDetected)
    /\ elements(result.metadata.emotionsDetected) \cap FiveLabels # {}

---------------------------------------------------------------------------
(* C6 *)

isNeutral(text) == categoriesIn(text) = {} /\ ~hasCrisisPhrase(text)

hasResourceEntry(response) == \E i \in 1..Len(response) : response[i] = "- **"

\* C6: for a message with no emotion term and no crisis phrase,
\* suggestResources returns an empty list and the composed response carries
\* no resource entries.
C6_NeutralGetsNoResources ==
    /\ ( Returned("suggestResources")
         /\ call.emotionData.emotions = << >>
         /\ ~call.emotionData.isCrisis
         /\ call.emotionData.intensity = "moderate" )
         => result = << >>
    /\ ( pc = "returned" /\ call.op \in {"process", "chat"}
         /\ isNeutral(composedFor) )
         => ~hasResourceEntry(result.response)

---------------------------------------------------------------------------
(* C7 *)

isUrgent(resource) == "urgent" \in DOMAIN resource /\ resource.urgent

\* C7: for every analysis with isCrisis = true, suggestResources returns
\* exactly the urgent 988 Suicide & Crisis Lifeline entry with the
\* reach-out-immediately message and then the Crisis Text Line entry,
\* whatever the emotions and intensity fields are.
C7_CrisisResourcesExactlyTwo ==
    ( Returned("suggestResources") /\ call.emotionData.isCrisis ) =>
        /\ Len(result) = 2
        /\ result[1] = [ name |-> "988 Suicide & Crisis Lifeline",
                      number |-> "988",
                      description |-> "Free, confidential support 24/7 for people in distress",
                      urgent |-> TRUE,
                      message |-> "If you're in crisis, please reach out immediately:" ]
        /\ result[2] = [ name |-> "Crisis Text Line",
                      number |-> "Text HOME to 741741",
                      description |-> "Free, 24/7 crisis support via text" ]

\* A crisis analysis whose other fields would select the 24/7 entry.
C7_Witness ==
    /\ Returned("suggestResources")
    /\ call.emotionData.isCrisis
    /\ call.emotionData.intensity = "high"
    /\ Len(call.emotionData.emotions) > 2
    /\ Len(result) = 2

---------------------------------------------------------------------------
(* C8 *)

\* C8: for every non-crisis analysis with intensity 'high' or more than 2
\* emotions, suggestResources returns the 988 line framed as 24/7
\* availability and then the general helpline, none of them urgent; an
\* entry is urgent only when isCrisis is true.
C8_HighGetsNonUrgent988 ==
    Returned("suggestResources") =>
        /\ ( ~call.emotionData.isCrisis
             /\ ( call.emotionData.intensity = "high"
                  \/ Len(call.emotionData.emotions) > 2 ) )
             => /\ Len(result) = 2
                /\ result[1].name = "988 Suicide & Crisis Lifeline"
                /\ result[1].number = "988"
                /\ result[1].message = "If you need immediate support, these resources are available 24/7:"
                /\ result[2].name = "SAMHSA National Helpline"
                /\ \A i \in 1..Len(result) : ~isUrgent(result[i])
        /\ ( \E i \in 1..Len(result) : isUrgent(result[i]) )
             => call.emotionData.isCrisis

\* More than 2 emotions at moderate intensity, without crisis.
C8_Witness ==
    /\ Returned("suggestResources")
    /\ ~call.emotionData.isCrisis
    /\ call.emotionData.intensity = "moderate"
    /\ Len(call.emotionData.emotions) = 3
    /\ Len(result) = 2
    /\ result[1].number = "988"

---------------------------------------------------------------------------
(* C9 *)

\* The text has heading and, after it, the entry "name**: contact".
listsUnder(text, heading, name, contact) ==
    \E h \in 1..Len(text) :
        /\ text[h] = heading
        /\ \E i \in (h + 1)..(Len(text) - 2) :
              /\ text[i] = name
              /\ text[i + 1] = "**: "
              /\ text[i + 2] = contact

crisisResourceText(text) ==
    /\ listsUnder(text, ImmediateSupportHeading,
                  "988 Suicide & Crisis Lifeline", "Call or Text 988")
    /\ listsUnder(text, ImmediateSupportHeading,
                  "Michigan Crisis Text Line", "Text \"HELLO\" to 741741")

distressResourceText(text) ==
    /\ listsUnder(text, MichiganResourcesHeading,
                  "988 Suicide & Crisis Lifeline", "Call or Text 988")
    /\ listsUnder(text, MichiganResourcesHeading,
                  "NAMI Michigan", "1-800-950-NAMI (6264)")
    /\ listsUnder(text, MichiganResourcesHeading,
                  "Teen Line", "1-800-TLC-TEEN (852-8336)")

hasResourceText(text) ==
    \E i \in 1..Len(text) :
        text[i] \in {ImmediateSupportHeading, MichiganResourcesHeading}

\* run got a non-empty message and analysed it.
RunAnalysed ==
    Returned("run") /\ result.success /\ result.empathyLevel # "none"

\* C9: the resource text depends on the level only: for 'crisis' the 988
\* line and the Crisis Text Line under the Immediate Support heading, for
\* 'distress' the 988 line, NAMI Michigan and Teen Line, for any other
\* level the empty string; run attaches resource text if and only if
\* distress or crisis was detected.
C9_ResourceTextByLevel ==
    /\ Returned("formatResourceSuggestions") =>
          CASE call.emotionLevel = "crisis"   -> crisisResourceText(result)
            [] call.emotionLevel = "distress" -> distressResourceText(result)
            [] OTHER                          -> result = << >>
    /\ RunAnalysed =>
          /\ hasResourceText(result.response)
                <=> result.empathyLevel \in {"crisis", "distress"}
          /\ result.empathyLevel = "crisis" => crisisResourceText(result.response)
          /\ result.empathyLevel = "distress" => distressResourceText(result.response)
          /\ Truthy(Get(call.params.value, "message")) =>
                ( hasResourceText(result.response)
                  <=> containsAnyOf(call.params.value.message.value,
                                    CRISIS_KEYWORDS \o DISTRESS_KEYWORDS) )

\* run on a distress message: the three distress resources are attached.
C9_Witness ==
    /\ RunAnalysed
    /\ result.empathyLevel = "distress"
    /\ Truthy(Get(call.params.value, "message"))
    /\ distressResourceText(result.response)

---------------------------------------------------------------------------
(* C10 *)

\* Some offline indicator is present: a flag of context.system or the
\* OFFLINE_MODE environment toggle.
offlineIndicated(context, env) ==
    LET system == IF context.type = "object"
                     /\ "system" \in DOMAIN context.value
                  THEN context.value.system.value ELSE EmptyObject
    IN \/ Get(system, "offlineMode") = Bool(TRUE)
       \/ Get(system, "offline") = Bool(TRUE)
       \/ Get(system, "networkStatus") = Str(<<"offline">>)
       \/ env \in { Str(<<"true">>), Str(<<"1">>) }

hasPrivacyNotice(response) ==
    \E i \in 1..Len(response) : response[i] = PrivacyNotice

\* C10: for every non-empty message at every level, when offline mode is
\* indicated run returns offline = true and a response with the Privacy
\* Mode notice, and otherwise offline = false and no notice.
C10_NoticeIffOfflineIndicated ==
    RunAnalysed =>
        IF offlineIndicated(call.context, call.env)
        THEN result.offline /\ hasPrivacyNotice(result.response)
        ELSE ~result.offline /\ ~hasPrivacyNotice(result.response)

---------------------------------------------------------------------------
(* C11 *)

\* C11: isOfflineMode returns true exactly when an offline indicator is
\* present: a flag of context.system (offlineMode true, offline true,
\* networkStatus 'offline') or OFFLINE_MODE set to 'true' or '1', whatever
\* the context contains.
C11_OfflineIffAnyIndicator ==
    Returned("isOfflineMode") =>
        ( result <=> offlineIndicated(call.context, call.env) )

---------------------------------------------------------------------------
(* C12 *)

\* The pieces of a composed text from the first of the headings on.
sectionFrom(response, headings) ==
    LET at == { i \in 1..Len(response) : response[i] \in headings } IN
    IF at = {} THEN << >>
    ELSE SubSeq(response, CHOOSE i \in at : \A j \in at : i <= j,
                Len(response))

\* What a result of process decides: the crisis flag, the intensity,
\* whether resources are shown, and the resource entries (the section from
\* the heading up to, not including, the closing sentence).
processDecisions(r) ==
    LET section == sectionFrom(r.response, {ResourcesHeading}) IN
    [ isCrisis     |-> r.metadata.isCrisis,
      intensity    |-> r.metadata.intensity,
      emotions     |-> r.metadata.emotionsDetected,
      hasResources |-> section # << >>,
      entries      |-> IF section = << >> THEN << >>
                       ELSE SubSeq(section, 1, Len(section) - 1) ]

\* What a result of run decides.
runDecisions(r) ==
    IF "hasResources" \in DOMAIN r
    THEN [ success      |-> r.success,
           isCrisis     |-> r.empathyLevel = "crisis",
           empathyLevel |-> r.empathyLevel,
           hasResources |-> r.hasResources,
           offline      |-> r.offline,
           entries      |-> sectionFrom(r.response,
                               { ImmediateSupportHeading,
                                 MichiganResourcesHeading }) ]
    ELSE [ success |-> r.success, response |-> r.response ]

\* The draw every execution of process is compared with; run is compared
\* with the execution that draws the first validation phrase.
ReferenceDraw == [opening |-> 1, validation |-> 1, supportive |-> 1]

\* C12: for a fixed message, context and underlying response, every
\* execution of process, and of run, decides what the execution with the
\* reference draw decides (so any two executions that differ only in the
\* phrases drawn agree): the same crisis flag, level / intensity,
\* hasResources value and resource entries.
C12_RandomIsCosmetic ==
    /\ Returned("process") =>
          processDecisions(result)
             = processDecisions(process(call.userInput, call.aiResponse,
                                        ReferenceDraw,
                                        result.metadata.timestamp))
    /\ Returned("run") =>
          runDecisions(result)
             = runDecisions(run(call.context, call.params, call.env, 1))

\* A crisis message composed by process with draws other than the
\* reference ones, with resource entries in the response.
C12_Witness ==
    /\ Returned("process")
    /\ call.rnd.opening # ReferenceDraw.opening
    /\ call.rnd.validation # ReferenceDraw.validation
    /\ call.rnd.supportive # ReferenceDraw.supportive
    /\ result.metadata.isCrisis
    /\ processDecisions(result).entries # << >>

\* A distress message answered by run with another validation phrase.
C12_WitnessRun ==
    /\ Returned("run")
    /\ call.index # 1
    /\ result.success
    /\ result.empathyLevel = "distress"
    /\ runDecisions(result).entries # << >>

---------------------------------------------------------------------------
(* C13 *)

\* No non-empty message under any of the aliases message, text, content;
\* params that is missing or not an object has none.
noMessageFound(params) ==
    \/ params.type # "object"
    \/ \A f \in {"message", "text", "content"} :
          ~Truthy(Get(params.value, f))

\* C13: whenever run is called with no non-empty message under any alias,
\* params missing or not an object included, it returns success = true
\* with empathyLevel 'none' and an empty response.
C13_AbsentInputIsEmptyResult ==
    ( Returned("run") /\ noMessageFound(call.params) ) =>
        /\ result.success
        /\ "empathyLevel" \in DOMAIN result
        /\ result.empathyLevel = "none"
        /\ result.response = << >>

---------------------------------------------------------------------------
(* C14 *)

WrapperCalled ==
    /\ pc = "returned"
    /\ call.op \in { "OpenClaw.chat", "OpenClaw.checkCrisis",
                     "OpenClaw.validateEmotions" }

\* C14: for every input value, chat, checkCrisis and validateEmotions of
\* the wrapper return a result and raise no exception.
C14_WrapperNeverThrows ==
    WrapperCalled => ( "returns" \in DOMAIN ret /\ "throws" \notin DOMAIN ret )

---------------------------------------------------------------------------
(* C15 *)

\* true unless the value is exactly false.
unlessFalse(v) == Bool(v # Bool(FALSE))

\* C15: for every constructor config, config.offlineMode of the wrapper
\* and of the skill is true unless offlineMode: false was passed, and so is
\* the metadata.offlineMode every later chat / process call reports.  (The
\* instance keeps the offlineMode it was given, so false was passed
\* exactly when openclaw.config.offlineMode is false.)
C15_OfflineUnlessExactlyFalse ==
    /\ Returned("new OpenClaw") =>
          /\ result.config.offlineMode
                = unlessFalse(Get(call.config, "offlineMode"))
          /\ result.empathyAnchor.config.offlineMode
                = unlessFalse(Get(call.config, "offlineMode"))
    /\ Returned("new EmpathyAnchor") =>
          result.config.offlineMode
             = unlessFalse(Get(call.config, "offlineMode"))
    /\ ComposedFromSkill =>
          result.metadata.offlineMode
             = unlessFalse(openclaw.config.offlineMode)

---------------------------------------------------------------------------
(* C16 *)

\* The line is the word exit in some letter case.
saysExit(line) ==
    /\ Len(line) = 4
    /\ \A k \in 1..4 : lowerChar(line[k]) = <<"e","x","i","t">>[k]

\* The position of the first exit among the typed lines, or one past the
\* last line when there is none.
firstExit(typed) ==
    LET at == { i \in 1..Len(typed) : saysExit(typed[i]) } IN
    IF at = {} THEN Len(typed) + 1
    ELSE CHOOSE i \in at : \A j \in at : i <= j

printedOf(kind) ==
    LET isKind(o) == o.kind = kind IN SelectSeq(cli.output, isKind)

\* C16: for any sequence of typed lines, the lines forwarded to chat are
\* exactly the lines before the first exit (in any letter case), once each
\* and in order; a response of chat to each of them is printed and the
\* prompt is issued again after it; the first exit prints the farewell and
\* closes the loop, after which no prompt is issued and no line forwarded.
C16_LoopForwardsUntilExit ==
    cli.state # "off" =>
        LET k         == firstExit(cli.typed)
            responses == printedOf("response")
        IN /\ cli.forwarded = SubSeq(cli.typed, 1, k - 1)
           /\ Len(responses) = Len(cli.forwarded)
           /\ \A i \in 1..Len(responses) :
                 \E rnd \in RandomDraws, now \in Timestamps :
                    responses[i].text
                       = chat(cli.forwarded[i], JsNull, rnd, now).response
           /\ Len(printedOf("prompt")) = Len(cli.forwarded) + 1
           /\ cli.state = "closed" <=> k <= Len(cli.typed)
           /\ IF cli.state = "closed"
              THEN /\ cli.output[Len(cli.output)] = Farewell
                   /\ Len(printedOf("farewell")) = 1
              ELSE /\ cli.output[Len(cli.output)] = Prompt
                   /\ printedOf("farewell") = << >>

\* A line was forwarded, then exit was typed in mixed case and closed the
\* loop, and a later line was typed and went nowhere.
C16_Witness ==
    /\ cli.state = "closed"
    /\ Len(cli.forwarded) = 1
    /\ Len(cli.typed) = 3
    /\ cli.typed[2] = <<"E","x","I","T">>
    /\ ~saysExit(cli.typed[3])

---------------------------------------------------------------------------
(* C17 *)

openingPool == elements(compassionateFrames.opening)

validationPool == elements(compassionateFrames.validation)

supportivePool == elements(compassionateFrames.supportive)

\* The opening sentence and, when present, the validation sentence, each
\* with the blank line after it.
preambleLen(response) ==
    IF Len(response) >= 3 /\ response[3] \in validationPool THEN 4 ELSE 2

\* The pieces after the preamble and before the resources heading, or
\* before the closing sentence when there is no heading.
bodyOf(response) ==
    LET at   == { i \in 1..Len(response) : response[i] = ResourcesHeading }
        stop == IF at = {} THEN Len(response)
                ELSE CHOOSE i \in at : \A j \in at : i <= j
    IN SubSeq(response, preambleLen(response) + 1, stop - 1)

\* C17: the text composed by process opens with an opening sentence (and
\* the validation sentence, if any); then comes the underlying response
\* verbatim when one is supplied, otherwise a generated fallback which, for
\* a non-crisis message with detected emotions, names every detected
\* emotion; resource entries come only after it; and the text ends with
\* one closing sentence of the supportive pool.
C17_ComposedTextStructure ==
    Returned("process") =>
        LET r    == result.response
            body == bodyOf(r)
        IN /\ r[1] \in openingPool
           /\ r[2] = "\n\n"
           /\ IF Truthy(call.aiResponse)
              THEN body = call.aiResponse.value \o << "\n\n" >>
              ELSE /\ Len(body) >= 2
                   /\ ( ~result.metadata.isCrisis
                        /\ result.metadata.emotionsDetected # << >> )
                        => elements(result.metadata.emotionsDetected)
                              \subseteq elements(body)
           /\ \A i \in 1..Len(r) :
                 r[i] = "- **" => i > preambleLen(r) + Len(body)
           /\ r[Len(r)] \in supportivePool
           /\ Cardinality({ i \in 1..Len(r) : r[i] \in supportivePool }) = 1

\* An underlying response wrapped for a message with a detected emotion,
\* with resource entries after it.
C17_Witness ==
    /\ Returned("process")
    /\ Truthy(call.aiResponse)
    /\ result.metadata.emotionsDetected # << >>
    /\ ~result.metadata.isCrisis
    /\ hasResourceEntry(result.response)

\* The fallback generated for a non-crisis message with two emotions.
C17_WitnessFallback ==
    /\ Returned("process")
    /\ ~Truthy(call.aiResponse)
    /\ ~result.metadata.isCrisis
    /\ Len(result.metadata.emotionsDetected) = 2

---------------------------------------------------------------------------
(* C18, C19, C20: vocabulary of the steps of the dispatcher *)

\* This step ends the delivery attempt in flight.
attemptEnds == service.attempting # 0 /\ service'.attempting = 0

\* The dispatch status the attempt that ends in this step is given.
attemptStatus == service'.log[service.attempting].dispatch

\* This step takes up the scheduled alert of log entry i.
takesUp(i) ==
    /\ i \in 1..Len(service.log)
    /\ service.log[i].dispatch = "pending"
    /\ Len(service'.log) = Len(service.log)
    /\ service'.log[i].dispatch # "pending"

\* The circuit is open and fewer than 60 seconds have passed since.
openWithinTimeout ==
    /\ service.breaker.state = "open"
    /\ service.now - service.breaker.opened_at < timeout_seconds

\* The circuit is open and its 60 seconds have elapsed.
openTimedOut ==
    /\ service.breaker.state = "open"
    /\ service.now - service.breaker.opened_at >= timeout_seconds

---------------------------------------------------------------------------
(* C18 *)

\* C18: the circuit, closed at the start, opens exactly when 5 dispatch
\* attempts in a row have failed: a failed attempt adds one to the count, a
\* success resets it, the circuit leaves closed only on the failure that
\* makes the count 5 and never stays closed with 5; while it is open and
\* fewer than 60 seconds have passed, a dispatch call reports circuit-open
\* at once and no delivery attempt is made.
C18_OpensAfterFiveFailures ==
    [][ LET b  == service.breaker
            b2 == service'.breaker
        IN /\ b.state = "closed" => b.consecutive_failures < 5
           /\ b2.state = "closed" => b2.consecutive_failures < 5
           /\ ( b.state = "closed" /\ attemptEnds /\ attemptStatus # "sent" )
                => /\ b2.consecutive_failures = b.consecutive_failures + 1
                   /\ b2.state = "open" <=> b2.consecutive_failures = 5
                   /\ b2.state = "open" => b2.opened_at = service.now
           /\ ( attemptEnds /\ attemptStatus = "sent" )
                => b2.state = "closed" /\ b2.consecutive_failures = 0
           /\ ( b.state = "closed" /\ b2.state # "closed" )
                => /\ attemptEnds /\ attemptStatus # "sent"
                   /\ b.consecutive_failures = 4
           /\ openWithinTimeout =>
                /\ service.attempting = 0 /\ service'.attempting = 0
                /\ \A i \in 1..Len(service.log) :
                      takesUp(i) =>
                         /\ service'.log[i].dispatch = "circuit-open"
                         /\ b2 = b
      ]_vars

\* A dispatch call was short-circuited: the circuit is open within its
\* timeout and an alert has the status circuit-open.
C18_Witness ==
    /\ service.breaker.state = "open"
    /\ service.breaker.consecutive_failures = 5
    /\ service.now - service.breaker.opened_at < timeout_seconds
    /\ \E i \in 1..Len(service.log) :
          service.log[i].dispatch = "circuit-open"

---------------------------------------------------------------------------
(* C19 *)

\* C19: once 60 seconds have elapsed since the circuit opened, the next
\* dispatch call is attempted as a half-open probe; a probe that succeeds
\* closes the circuit and resets the failure counter to 0, a probe that
\* fails opens the circuit again with the timeout restarted from then.
C19_ProbeAfterTimeout ==
    [][ LET b  == service.breaker
            b2 == service'.breaker
        IN /\ openTimedOut =>
                \A i \in 1..Len(service.log) :
                   takesUp(i) =>
                      /\ b2.state = "half-open"
                      /\ service'.attempting = i
                      /\ service'.log[i].dispatch = "attempting"
           /\ ( b.state = "half-open" /\ attemptEnds
                /\ attemptStatus = "sent" )
                => b2.state = "closed" /\ b2.consecutive_failures = 0
           /\ ( b.state = "half-open" /\ attemptEnds
                /\ attemptStatus # "sent" )
                => b2.state = "open" /\ b2.opened_at = service.now
           /\ b.state = "half-open" => service.attempting # 0
      ]_vars

\* One alert was short-circuited and a later one delivered by the probe:
\* the circuit is closed again with the counter at 0.
C19_Witness ==
    /\ service.breaker.state = "closed"
    /\ service.breaker.consecutive_failures = 0
    /\ Len(service.log) = 2
    /\ service.log[1].dispatch = "circuit-open"
    /\ service.log[2].dispatch = "sent"

\* A probe failed: the circuit is open again, its timer restarted.
C19_WitnessReopened ==
    /\ service.breaker.state = "open"
    /\ service.breaker.opened_at = service.now
    /\ Len(service.log) = 2
    /\ service.log[1].dispatch = "circuit-open"
    /\ service.log[2].dispatch \in {"mock", "failed"}

---------------------------------------------------------------------------
(* C20 *)

\* Every flagged request of the log has the response with its verdict.
verdictsReturned(log) ==
    \A i \in 1..Len(log) :
        log[i].dispatch # "none" =>
            /\ log[i].response.code = 200
            /\ log[i].response.body
                  = IF log[i].kind = "check_chat"
                    THEN "blocked: potential threat"
                    ELSE "alert: Outside safe zone"

\* C20: every flagged chat-check or location-check request is answered
\* with its verdict whatever the state or outcome of its alert (pending,
\* being attempted, sent, mock, failed, circuit-open), and no step of the
\* dispatcher changes a response that was sent.
C20_VerdictWhateverDispatch ==
    [][ /\ verdictsReturned(service.log)
        /\ verdictsReturned(service'.log)
        /\ Len(service'.log) >= Len(service.log) =>
              \A i \in 1..Len(service.log) :
                  /\ service'.log[i].response = service.log[i].response
                  /\ service'.log[i].kind = service.log[i].kind
      ]_vars

\* One flagged request whose alert was short-circuited and another that
\* was answered while its alert is still waiting.
C20_Witness ==
    /\ Len(service.log) = 2
    /\ service.log[1].dispatch = "circuit-open"
    /\ service.log[1].response.code = 200
    /\ service.log[2].dispatch = "pending"
    /\ service.log[2].response.code = 200

---------------------------------------------------------------------------
(* C21: the stages of a chat-check request.                                *)

\* The stages in their order; FLAGGED and SAFE are alternatives.
stageOrder ==
    { << "RECEIVED", "AUTHENTICATED" >>, << "AUTHENTICATED", "VALIDATED" >>,
      << "VALIDATED", "SCANNED" >>, << "SCANNED", "FLAGGED" >>,
      << "SCANNED", "SAFE" >>, << "FLAGGED", "ALERT_DISPATCHED" >>,
      << "ALERT_DISPATCHED", "RESPONDED" >>, << "SAFE", "RESPONDED" >>,
      << "RECEIVED", "RESPONDED" >>, << "AUTHENTICATED", "RESPONDED" >> }

\* The request fails authentication or validation.
requestRejected ==
    LET r == service.request
    IN \/ r.token # "valid"
       \/ r.body # "message"
       \/ r.bytes > MaxMessageBytes

\* C21: a chat-check request starts at RECEIVED and moves only along
\* RECEIVED, AUTHENTICATED, VALIDATED, SCANNED, then FLAGGED and
\* ALERT_DISPATCHED or SAFE, then RESPONDED; a request with a bad token or a
\* bad body (a message over 10 KB included) goes from the failing stage
\* straight to RESPONDED with the 401 or 400 error and is never scanned and
\* never dispatches an alert; an alert is dispatched only for a request that
\* was scanned and flagged.
C21_RequestStages ==
    LET r == service.request
    IN /\ r.trail # << >> => r.trail[1] = "RECEIVED"
       /\ \A i \in 1..(Len(r.trail) - 1) :
             << r.trail[i], r.trail[i + 1] >> \in stageOrder
       /\ r.stage # "IDLE" /\ requestRejected =>
             /\ r.scans = 0
             /\ r.alerts = 0
             /\ \A i \in 1..Len(r.trail) :
                   r.trail[i] \in { "RECEIVED", "AUTHENTICATED", "RESPONDED" }
             /\ r.stage = "RESPONDED" =>
                   /\ r.response.code = (IF r.token # "valid" THEN 401 ELSE 400)
                   /\ r.token # "valid" =>
                         r.trail = << "RECEIVED", "RESPONDED" >>
                   /\ r.token = "valid" =>
                         r.trail = << "RECEIVED", "AUTHENTICATED", "RESPONDED" >>
       /\ r.alerts > 0 => r.scans > 0 /\ r.flagged
       /\ r.stage = "RESPONDED" /\ ~requestRejected =>
             r.scans = 1 /\ r.alerts = (IF r.flagged THEN 1 ELSE 0)

\* An oversized message from an authenticated client has been answered.
C21_Witness ==
    /\ service.request.stage = "RESPONDED"
    /\ service.request.token = "valid"
    /\ service.request.body = "message"
    /\ service.request.bytes > MaxMessageBytes

\* A flagged request has been answered after its alert was dispatched.
C21_WitnessFlagged ==
    /\ service.request.stage = "RESPONDED"
    /\ service.request.alerts = 1

---------------------------------------------------------------------------
(* C22: chat on empty input, and on any other string.                      *)

\* The response chat gives without consulting the skill.
ListeningResponse ==
    [ response |-> << "I'm here to listen. Please share what's on your mind." >>,
      metadata |-> [ error |-> "Empty input" ] ]

\* The message has no character, or only white space.
emptyOrWhitespace(message) ==
    \A i \in 1..Len(message) : message[i] \in WhiteSpaceChars

\* C22: chat with an empty or whitespace-only message returns the fixed
\* listening response with metadata.error = 'Empty input' and calls no skill
\* method; with any other string it calls process once and returns exactly
\* what process returns for that message and aiResponse.
C22_EmptyInputOrDelegation ==
    Returned("chat") =>
        IF emptyOrWhitespace(call.message)
        THEN /\ result = ListeningResponse
             /\ ret.invoked = << >>
        ELSE /\ ret.invoked = << "process" >>
             /\ \E now \in Timestamps :
                   result = process(call.message, call.aiResponse,
                                    call.rnd, now)

\* chat was handed a message of white space only.
C22_Witness ==
    /\ Returned("chat")
    /\ call.message # << >>
    /\ emptyOrWhitespace(call.message)

\* chat was handed a message with text and a response to wrap.
C22_WitnessDelegated ==
    /\ Returned("chat")
    /\ ~emptyOrWhitespace(call.message)
    /\ call.aiResponse # JsNull
    /\ "isCrisis" \in DOMAIN result.metadata

---------------------------------------------------------------------------
(* C23: the crisis alert of the interactive loop.                          *)

\* The position in the output of the response to the i-th forwarded line.
responseAt(i) ==
    CHOOSE p \in 1..Len(cli.output) :
        /\ cli.output[p].kind = "response"
        /\ Cardinality({ q \in 1..p : cli.output[q].kind = "response" }) = i

\* C23: in the interactive loop the crisis-alert line is printed for an
\* input line if and only if the skill reports crisis for that line; it
\* comes right after the response to that line and right before the next
\* prompt; an empty line and a line without crisis get no alert.
C23_AlertIffCrisis ==
    cli.state # "off" =>
        /\ Len(printedOf("response")) = Len(cli.forwarded)
        /\ \A i \in 1..Len(cli.forwarded) :
              LET p    == responseAt(i)
                  line == cli.forwarded[i]
              IN /\ p < Len(cli.output)
                 /\ IF isCrisisDetected(line)
                    THEN /\ cli.output[p + 1] = CrisisAlert
                         /\ p + 1 < Len(cli.output)
                         /\ cli.output[p + 2] = Prompt
                    ELSE cli.output[p + 1] = Prompt
                 /\ (line = << >> \/ isBlank(line)) =>
                       cli.output[p + 1] = Prompt
        /\ \A p \in 1..Len(cli.output) :
              cli.output[p] = CrisisAlert =>
                 /\ p > 1
                 /\ cli.output[p - 1].kind = "response"
        /\ Len(printedOf("crisis-alert"))
              = Cardinality({ i \in 1..Len(cli.forwarded) :
                                 isCrisisDetected(cli.forwarded[i]) })

\* A crisis line got its alert, and the line after it, without crisis, got
\* none.
C23_Witness ==
    /\ cli.state = "asking"
    /\ Len(cli.forwarded) = 2
    /\ isCrisisDetected(cli.forwarded[1])
    /\ ~isCrisisDetected(cli.forwarded[2])
    /\ cli.forwarded[2] # << >>
    /\ Len(printedOf("crisis-alert")) = 1

\* An empty line was answered and got no alert.
C23_WitnessEmpty ==
    /\ cli.state = "asking"
    /\ Len(cli.forwarded) = 1
    /\ cli.forwarded[1] = << >>
    /\ Len(printedOf("response")) = 1

---------------------------------------------------------------------------
(* C24: the two-tier CRISIS list against the five-category crisis          *)
(* vocabulary.                                                             *)

\* The terms of the CRISIS list found in the message.
crisisTermsFound(message) ==
    { CRISIS_KEYWORDS[k] : k \in
        { j \in 1..Len(CRISIS_KEYWORDS) :
             containsIgnoringCase(message, CRISIS_KEYWORDS[j]) } }

\* The terms of the CRISIS list the five-category detector does not know.
TwoTierOnly ==
    { <<"c","u","t","t","i","n","g">>,
      <<"o","v","e","r","d","o","s","e">> }

\* C24 as stated: every term of the CRISIS list that makes the two-tier
\* detector answer 'crisis' belongs to the crisis vocabulary of the
\* five-category detector, so the five-category detector answers
\* isCrisis = true for the same message.
C24_TwoTierCrisisIsCrisis ==
    Returned("analyzeEmotionalContent") /\ result.emotionLevel = "crisis" =>
        /\ crisisTermsFound(call.message) \subseteq elements(crisisPatterns)
        /\ validateEmotions(call.message).isCrisis

\* C24 amended: apart from 'cutting' and 'overdose', every term of the
\* CRISIS list belongs to the crisis vocabulary of the five-category
\* detector, so a message the two-tier detector classifies as 'crisis'
\* through any other term is classified as crisis (isCrisis = true) by the
\* five-category detector too.
C24_TwoTierCrisisIsCrisisButTwoTerms ==
    Returned("analyzeEmotionalContent") /\ result.emotionLevel = "crisis" =>
        LET shared == crisisTermsFound(call.message) \ TwoTierOnly
        IN /\ elements(CRISIS_KEYWORDS) \ TwoTierOnly
                 \subseteq elements(crisisPatterns)
           /\ shared \subseteq elements(crisisPatterns)
           /\ shared # {} => validateEmotions(call.message).isCrisis

\* Both detectors answered crisis for a message with a shared term.
C24_Witness ==
    /\ Returned("analyzeEmotionalContent")
    /\ result.emotionLevel = "crisis"
    /\ crisisTermsFound(call.message) \ TwoTierOnly # {}
    /\ validateEmotions(call.message).isCrisis

\* The two-tier detector answered crisis for a message that has only a
\* term of its own.
C24_WitnessTwoTierOnly ==
    /\ Returned("analyzeEmotionalContent")
    /\ result.emotionLevel = "crisis"
    /\ crisisTermsFound(call.message) \subseteq TwoTierOnly
    /\ ~validateEmotions(call.message).isCrisis

---------------------------------------------------------------------------
(* C25: the aliases of run's message.                                      *)

AliasNames == << "message", "text", "content" >>

\* The positions in AliasNames of the properties of params that hold a
\* non-empty string.
aliasesGiven(params) ==
    { k \in 1..Len(AliasNames) :
         /\ AliasNames[k] \in DOMAIN params.value
         /\ params.value[AliasNames[k]].type = "string"
         /\ params.value[AliasNames[k]].value # << >> }

\* The first of them, in the order message, text, content.
firstAlias(params) ==
    CHOOSE k \in aliasesGiven(params) : \A j \in aliasesGiven(params) : k <= j

\* C25: run takes the message from the first non-empty value among
\* params.message, params.text and params.content, in that order: its
\* result is the result of run for params that hold that text as message
\* alone, its level is the level of that text, and the aliases of lower
\* priority that are present as well change nothing.
C25_FirstNonEmptyAlias ==
    Returned("run") /\ call.params.type = "object"
                    /\ aliasesGiven(call.params) # {} =>
        LET text == call.params.value[AliasNames[firstAlias(call.params)]]
        IN /\ result = run(call.context, Obj([message |-> text]),
                           call.env, call.index)
           /\ result.success
           /\ result.empathyLevel
                 = analyzeEmotionalContent(text.value).emotionLevel
           /\ result.hasResources
                 = analyzeEmotionalContent(text.value).suggestResources

\* run was handed a neutral message together with a distress text and a
\* crisis content, and answered for the message.
C25_Witness ==
    /\ Returned("run")
    /\ call.params.type = "object"
    /\ aliasesGiven(call.params) = { 1, 2, 3 }
    /\ result.empathyLevel = "neutral"

\* run was handed an empty message, a distress text and a crisis content,
\* and answered for the text.
C25_WitnessText ==
    /\ Returned("run")
    /\ call.params.type = "object"
    /\ "message" \in DOMAIN call.params.value
    /\ aliasesGiven(call.params) = { 2, 3 }
    /\ result.empathyLevel = "distress"

\* run was handed a content only and answered for it.
C25_WitnessContent ==
    /\ Returned("run")
    /\ call.params.type = "object"
    /\ aliasesGiven(call.params) = { 3 }
    /\ result.empathyLevel = "crisis"

---------------------------------------------------------------------------
(* C26: a custom crisisHotline.                                            *)

\* The crisisHotline the anchor was constructed with is not the default.
customHotline ==
    /\ anchor.config.crisisHotline.type = "string"
    /\ anchor.config.crisisHotline # Str(<< "988" >>)

\* The number of the configured hotline, as printed.
configuredNumber == anchor.config.crisisHotline.value[1]

\* C26: when an EmpathyAnchor is constructed with a custom crisisHotline,
\* the instance keeps that value in its config, and the crisis resource it
\* suggests and prints for a crisis message carries the configured number
\* instead of 988.
C26_CustomHotlineShown ==
    /\ Returned("new EmpathyAnchor()") /\ Truthy(Get(call.config, "crisisHotline")) =>
          anchor.config.crisisHotline = call.config.crisisHotline
    /\ Returned("anchor.suggestResources") /\ call.emotionData.isCrisis
                                           /\ customHotline =>
          /\ result[1].urgent
          /\ result[1].number = configuredNumber
    /\ Returned("anchor.process") /\ result.metadata.isCrisis
                                  /\ customHotline =>
          /\ listsResource(result.response, resources.crisis.name,
                           configuredNumber)
          /\ ~has988Contact(result.response)

---------------------------------------------------------------------------
(* C27: the wrapper only delegates.                                        *)

\* What chat reports about the message agrees with checkCrisis and
\* validateEmotions of the wrapper, and these with the skill's own methods.
chatAgreesWithDetectors ==
    LET message   == call.message
        crisis    == callCheckCrisis(message)
        validated == callValidateEmotions(message)
    IN /\ "returns" \in DOMAIN ret
       /\ "returns" \in DOMAIN crisis
       /\ "returns" \in DOMAIN validated
       /\ crisis.returns = isCrisisDetected(message.value)
       /\ validated.returns = validateEmotions(message.value)
       /\ { "isCrisis", "emotionsDetected", "intensity" }
             \subseteq DOMAIN result.metadata
       /\ result.metadata.isCrisis = crisis.returns
       /\ result.metadata.emotionsDetected = validated.returns.emotions
       /\ result.metadata.intensity = validated.returns.intensity

\* checkCrisis and validateEmotions of the wrapper return what the skill's
\* isCrisisDetected and validateEmotions return.
detectorsDelegate ==
    /\ Returned("OpenClaw.checkCrisis") /\ call.message.type = "string" =>
          /\ "returns" \in DOMAIN ret
          /\ result = isCrisisDetected(call.message.value)
    /\ Returned("OpenClaw.validateEmotions") /\ call.message.type = "string" =>
          /\ "returns" \in DOMAIN ret
          /\ result = validateEmotions(call.message.value)

\* C27 as stated: for every non-empty string message, after any sequence
\* of earlier calls, chat(message).metadata.isCrisis equals
\* checkCrisis(message), metadata.emotionsDetected and metadata.intensity
\* equal the emotions and intensity of validateEmotions(message), and these
\* equal the skill's own isCrisisDetected and validateEmotions results.
C27_WrapperDelegates ==
    /\ detectorsDelegate
    /\ Returned("OpenClaw.chat") /\ call.message.type = "string"
                                 /\ call.message.value # << >> =>
          chatAgreesWithDetectors

\* C27 amended: the same for every string message that is neither empty
\* nor made of white space only.
C27_WrapperDelegatesUnlessBlank ==
    /\ detectorsDelegate
    /\ Returned("OpenClaw.chat") /\ call.message.type = "string"
                                 /\ ~emptyOrWhitespace(call.message.value) =>
          chatAgreesWithDetectors

\* chat answered a crisis message in mixed case.
C27_Witness ==
    /\ Returned("OpenClaw.chat")
    /\ call.message.type = "string"
    /\ ~emptyOrWhitespace(call.message.value)
    /\ "returns" \in DOMAIN ret
    /\ result.metadata.isCrisis
    /\ result.metadata.emotionsDetected # << >>

\* checkCrisis answered a crisis message.
C27_WitnessCheckCrisis ==
    /\ Returned("OpenClaw.checkCrisis")
    /\ call.message.type = "string"
    /\ "returns" \in DOMAIN ret
    /\ result = TRUE

---------------------------------------------------------------------------
(* C28: the fields of run's result agree with each other.                  *)

\* C28: in every successful result of run for a non-empty message,
\* hasResources equals metadata.resourcesShared and is true exactly when
\* empathyLevel is 'crisis' or 'distress', offline equals
\* metadata.privacyMode, empathyLevel equals metadata.emotionLevel, and for
\* a neutral message outside offline mode the response is the empty string.
C28_RunResultConsistent ==
    RunAnalysed =>
        /\ { "hasResources", "offline", "metadata" } \subseteq DOMAIN result
        /\ result.hasResources = result.metadata.resourcesShared
        /\ result.hasResources
              <=> result.empathyLevel \in { "crisis", "distress" }
        /\ result.offline = result.metadata.privacyMode
        /\ result.empathyLevel = result.metadata.emotionLevel
        /\ result.empathyLevel \in { "crisis", "distress", "neutral" }
        /\ result.empathyLevel = "neutral" /\ ~result.offline =>
              result.response = << >>

\* run answered a neutral message outside offline mode.
C28_Witness ==
    /\ RunAnalysed
    /\ result.empathyLevel = "neutral"
    /\ ~result.offline
    /\ result.response = << >>

\* run answered a crisis message in offline mode.
C28_WitnessCrisisOffline ==
    /\ RunAnalysed
    /\ result.empathyLevel = "crisis"
    /\ result.offline
    /\ result.hasResources

---------------------------------------------------------------------------
(* C29: the three crisis indicators of validateEmotions.                   *)

\* C29: in every result of validateEmotions, isCrisis is true if and only
\* if intensity is 'critical', if and only if the text contains a crisis
\* phrase; a text without crisis phrase never gets 'critical', however many
\* emotion categories it matches.
C29_CrisisIndicatorsAgree ==
    Returned("validateEmotions") =>
        /\ result.isCrisis <=> result.intensity = "critical"
        /\ result.isCrisis <=> hasCrisisPhrase(call.text)
        /\ ~hasCrisisPhrase(call.text) =>
              result.intensity \in { "moderate", "high" }

\* A crisis phrase together with terms of three categories: critical.
C29_Witness ==
    /\ Returned("validateEmotions")
    /\ hasCrisisPhrase(call.text)
    /\ Cardinality(categoriesIn(call.text)) >= 3
    /\ result.isCrisis
    /\ result.intensity = "critical"

\* Four categories and no crisis phrase: high, not critical.
C29_WitnessNoCrisis ==
    /\ Returned("validateEmotions")
    /\ ~hasCrisisPhrase(call.text)
    /\ Cardinality(categoriesIn(call.text)) = 4
    /\ ~result.isCrisis
    /\ result.intensity = "high"

---------------------------------------------------------------------------
(* C30: the skill's operations share no mutable state.                     *)

SkillOperations ==
    { "validateEmotions", "suggestResources", "wrapWithCompassion",
      "process", "analyzeEmotionalContent", "run" }

\* The skill instance as the constructor leaves it.
asConstructed == OpenClawConstructor(EmptyObject).empathyAnchor

\* What the call gives when it is the only call ever made: the operation
\* applied to the call's arguments (the draws of Math.random among them) on
\* the instance as constructed.
isolatedResult(c) ==
    CASE c.op = "validateEmotions" -> validateEmotions(c.text)
      [] c.op = "suggestResources" -> suggestResources(c.emotionData)
      [] c.op = "wrapWithCompassion" ->
            wrapWithCompassion(c.originalResponse, c.userInput, c.rnd)
      [] c.op = "process" ->
            processOf(asConstructed, c.userInput, c.aiResponse, c.rnd,
                      CHOOSE now \in Timestamps : TRUE)
      [] c.op = "analyzeEmotionalContent" ->
            analyzeEmotionalContent(c.message)
      [] c.op = "run" -> run(c.context, c.params, c.env, c.index)

C30_WitnessRun ==
    /\ Returned("run")
    /\ result.success
    /\ result.empathyLevel = "crisis"

=============================================================================
